---- MODULE Spec2Model ----
(***************************************************************************)
(* Trade-copy pipeline of the Polymarket copy-trading bot: the onMessage   *)
(* handler of src/src/index.ts, TradeOrderBuilder.copyTrade of             *)
(* src/unnamed/part_000 (order-builder/builder.ts), the holdings ledger    *)
(* and the timer-driven redemption sweep (performRedemption).              *)
(*                                                                         *)
(* JavaScript runs one callback at a time; a callback runs until its next  *)
(* await.  The variable io holds the one message the event loop is         *)
(* delivering (a feed message, a timer tick, or the settlement of an       *)
(* awaited call); the program's step that consumes it is the synchronous   *)
(* code up to the next await.                                              *)
(***************************************************************************)
EXTENDS Integers, Sequences, FiniteSets, TLC

\* ---------------------------------------------------------------- bounds
\* Spec: number of invocations (feed messages plus timer ticks) started in
\* one behaviour.
MaxInvocations == 3
\* SpecCopy: number of feed messages delivered in one behaviour.
MaxCopyEvents == 1
\* SpecRedeem: number of timer ticks in one behaviour.
MaxRedeemTicks == 1
\* SpecLedger: largest quantity an add may reach.
MaxQuantity == 3

\* --------------------------------------------------------------- numbers
\* JavaScript numbers are modelled as exact rationals n/d in lowest terms,
\* d > 0, plus NaN (d = 0).
Abs(x) == IF x < 0 THEN -x ELSE x

RECURSIVE GCD(_, _)
GCD(a, b) == IF b = 0 THEN a ELSE GCD(b, a % b)

Rat(n, d) ==
    LET g == GCD(Abs(n), Abs(d))
        s == IF d < 0 THEN -1 ELSE 1
    IN  [n |-> (s * n) \div g, d |-> (s * d) \div g]

NaN == [n |-> 0, d |-> 0]
Zero == [n |-> 0, d |-> 1]
One == [n |-> 1, d |-> 1]

IsNaN(x) == x.d = 0
RAdd(a, b) == Rat(a.n * b.d + b.n * a.d, a.d * b.d)
RSub(a, b) == Rat(a.n * b.d - b.n * a.d, a.d * b.d)
RMul(a, b) == Rat(a.n * b.n, a.d * b.d)
\* a / b; x / 0 is Infinity or NaN in JavaScript, never reached here because
\* the only divisor is (trade.price || 1).
RDiv(a, b) == IF b.n = 0 THEN NaN ELSE Rat(a.n * b.d, a.d * b.n)
\* Comparisons with NaN are false, as in JavaScript.
RLt(a, b) == ~IsNaN(a) /\ ~IsNaN(b) /\ a.n * b.d < b.n * a.d
RLe(a, b) == ~IsNaN(a) /\ ~IsNaN(b) /\ a.n * b.d <= b.n * a.d
RGt(a, b) == RLt(b, a)
RGe(a, b) == RLe(b, a)
RMax(a, b) == IF RGt(a, b) THEN a ELSE b

\* --------------------------------------------------------------- strings
\* Strings the code inspects are sequences of one-character strings.
LowerChars == <<"a", "b", "c", "d", "e", "l", "s", "u", "y">>
UpperChars == <<"A", "B", "C", "D", "E", "L", "S", "U", "Y">>

ToLowerCase(s) ==
    [i \in DOMAIN s |->
        IF \E k \in DOMAIN UpperChars : UpperChars[k] = s[i]
        THEN LowerChars[CHOOSE k \in DOMAIN UpperChars : UpperChars[k] = s[i]]
        ELSE s[i]]

ToUpperCase(s) ==
    [i \in DOMAIN s |->
        IF \E k \in DOMAIN LowerChars : LowerChars[k] = s[i]
        THEN UpperChars[CHOOSE k \in DOMAIN LowerChars : LowerChars[k] = s[i]]
        ELSE s[i]]

\* String.prototype.includes: needle occurs in hay as a contiguous run.
Includes(hay, needle) ==
    \E i \in 0..(Len(hay) - Len(needle)) :
        \A j \in 1..Len(needle) : hay[i + j] = needle[j]

Digits == <<"0", "1", "2", "3", "4", "5", "6", "7", "8", "9">>
IsDigit(c) == \E k \in DOMAIN Digits : Digits[k] = c
DigitVal(c) == (CHOOSE k \in DOMAIN Digits : Digits[k] = c) - 1

\* Number of consecutive digits of s starting at position i.
RECURSIVE DigitRun(_, _)
DigitRun(s, i) ==
    IF i <= Len(s) /\ IsDigit(s[i]) THEN 1 + DigitRun(s, i + 1) ELSE 0

\* Value of the k digits of s starting at position i.
RECURSIVE DigitsValue(_, _, _)
DigitsValue(s, i, k) ==
    IF k = 0 THEN 0
    ELSE DigitsValue(s, i, k - 1) * 10 + DigitVal(s[i + k - 1])

RECURSIVE Pow10(_)
Pow10(k) == IF k = 0 THEN 1 ELSE 10 * Pow10(k - 1)

\* parseFloat: optional sign, digits, optional fraction; the longest numeric
\* prefix is used and NaN is returned when there is none.
ParseFloat(s) ==
    LET signed == Len(s) > 0 /\ s[1] \in {"-", "+"}
        sgn == IF Len(s) > 0 /\ s[1] = "-" THEN -1 ELSE 1
        st == IF signed THEN 2 ELSE 1
        ni == DigitRun(s, st)
        dotAt == st + ni
        hasDot == dotAt <= Len(s) /\ s[dotAt] = "."
        nf == IF hasDot THEN DigitRun(s, dotAt + 1) ELSE 0
    IN  IF ni + nf = 0 THEN NaN
        ELSE Rat(sgn * (DigitsValue(s, st, ni) * Pow10(nf)
                        + DigitsValue(s, dotAt + 1, nf)),
                 Pow10(nf))

\* parseInt(s, 10): optional sign and digits; NaN when there is no digit.
ParseInt(s) ==
    LET signed == Len(s) > 0 /\ s[1] \in {"-", "+"}
        sgn == IF Len(s) > 0 /\ s[1] = "-" THEN -1 ELSE 1
        st == IF signed THEN 2 ELSE 1
        ni == DigitRun(s, st)
    IN  IF ni = 0 THEN NaN ELSE Rat(sgn * DigitsValue(s, st, ni), 1)

\* An optional string field of a response: absent (undefined) or a text.
Absent == [present |-> FALSE, text |-> <<>>]
Text(s) == [present |-> TRUE, text |-> s]
\* JavaScript truthiness of an optional string: defined and non-empty.
Truthy(f) == f.present /\ Len(f.text) > 0

\* ------------------------------------------------------- holdings ledger
\* utils/holdings.ts keeps one JSON document, market -> token -> quantity,
\* and every operation reads the whole document and rewrites it.
Markets == {"mA", "mB", "mC"}
Tokens == {"t1", "t2"}
\* Key order of the written document.
MarketOrder == <<"mA", "mB", "mC">>
TokenOrder == <<"t1", "t2">>

InOrder(order, S) == SelectSeq(order, LAMBDA x : x \in S)

\* JSON.stringify of the document: the entries, market by market.
SaveHoldings(doc) ==
    LET ms == InOrder(MarketOrder, DOMAIN doc)
    IN  [i \in DOMAIN ms |->
            LET ts == InOrder(TokenOrder, DOMAIN doc[ms[i]])
            IN  [market |-> ms[i],
                 tokens |-> [j \in DOMAIN ts |->
                                [token |-> ts[j], amount |-> doc[ms[i]][ts[j]]]]]]

\* A reader that skips the entries of quantity 0.
LoadHoldingsNonZero(file) ==
    [m \in {file[i].market : i \in DOMAIN file} |->
        LET e == file[CHOOSE i \in DOMAIN file : file[i].market = m].tokens
        IN  [t \in {e[j].token : j \in {k \in DOMAIN e : e[k].amount # Zero}} |->
                e[CHOOSE j \in DOMAIN e : e[j].token = t].amount]]

\* JSON.parse of the file: back to the mapping.
LoadHoldings(file) ==
    [m \in {file[i].market : i \in DOMAIN file} |->
        LET e == file[CHOOSE i \in DOMAIN file : file[i].market = m].tokens
        IN  [t \in {e[j].token : j \in DOMAIN e} |->
                e[CHOOSE j \in DOMAIN e : e[j].token = t].amount]]

HasEntry(doc, m, t) == m \in DOMAIN doc /\ t \in DOMAIN doc[m]

DocGet(doc, m, t) == IF HasEntry(doc, m, t) THEN doc[m][t] ELSE Zero

\* An update that keys the ledger by market alone.
DocSetMarketOnly(doc, m, t, q) ==
    [mm \in DOMAIN doc \cup {m} |->
        IF mm = m THEN [tt \in {t} |-> q] ELSE doc[mm]]

DocSet(doc, m, t, q) ==
    [mm \in DOMAIN doc \cup {m} |->
        IF mm = m
        THEN [tt \in (IF m \in DOMAIN doc THEN DOMAIN doc[m] ELSE {}) \cup {t} |->
                 IF tt = t THEN q ELSE doc[m][tt]]
        ELSE doc[mm]]

getHoldings(file, m, t) == DocGet(LoadHoldings(file), m, t)

addHoldings(file, m, t, a) ==
    LET doc == LoadHoldings(file)
    IN  SaveHoldings(DocSet(doc, m, t, RAdd(DocGet(doc, m, t), a)))

\* A removal that subtracts without a floor.
removeHoldingsUnclamped(file, m, t, a) ==
    LET doc == LoadHoldings(file)
    IN  IF HasEntry(doc, m, t)
        THEN SaveHoldings(DocSet(doc, m, t, RSub(doc[m][t], a)))
        ELSE file

\* The quantity never goes below 0.
removeHoldings(file, m, t, a) ==
    LET doc == LoadHoldings(file)
    IN  IF HasEntry(doc, m, t)
        THEN SaveHoldings(DocSet(doc, m, t, RMax(Zero, RSub(doc[m][t], a))))
        ELSE file

\* A clearing that drops one token of the market only.
clearMarketHoldingsOneToken(file, m) ==
    LET doc == LoadHoldings(file)
    IN  IF m \in DOMAIN doc
        THEN LET t == CHOOSE x \in DOMAIN doc[m] : TRUE
             IN  SaveHoldings([mm \in DOMAIN doc |->
                    IF mm = m THEN [tt \in DOMAIN doc[m] \ {t} |-> doc[m][tt]]
                    ELSE doc[mm]])
        ELSE file

\* A redeemed market's entries are dropped from the document.
clearMarketHoldings(file, m) ==
    LET doc == LoadHoldings(file)
    IN  SaveHoldings([mm \in DOMAIN doc \ {m} |-> doc[mm]])

\* The markets and the tokens held, as the sweep enumerates them.
HeldMarkets(file) == DOMAIN LoadHoldings(file)
HeldTokens(file, m) ==
    LET doc == LoadHoldings(file) IN IF m \in DOMAIN doc THEN DOMAIN doc[m] ELSE {}

\* --------------------------------------------------------- configuration
\* TARGET_WALLET.
TargetWallet == <<"0", "x", "A", "b">>

\* An optional number (maxAmount): undefined or a value.
NoNumber == [present |-> FALSE, value |-> Zero]
Num(x) == [present |-> TRUE, value |-> x]

\* The configurations main() can read from the environment: SIZE_MULTIPLIER,
\* MAX_ORDER_AMOUNT, ENABLE_COPY_TRADING, whether the order builder could be
\* constructed, and whether REDEEM_DURATION is a positive number.
Config(mult, max, enable, builder, redeem) ==
    [sizeMultiplier |-> mult, maxAmount |-> max, enableCopyTrading |-> enable,
     orderBuilder |-> builder, redeemEnabled |-> redeem]
\* Copy trading on, with and without a cap.
CopyConfigs(redeem) ==
    {Config(One, NoNumber, TRUE, TRUE, redeem), Config(Rat(2, 1), Num(One), TRUE, TRUE, redeem)}
\* Copy trading switched off, or on with no order builder (no CLOB client).
NoCopyConfigs(redeem) ==
    {Config(One, NoNumber, FALSE, FALSE, redeem), Config(One, NoNumber, TRUE, FALSE, redeem)}

\* A test that lets an interval of 0 through.
RedeemTimerSetNonNegative(duration) ==
    /\ Truthy(duration)
    /\ RGe(ParseInt(duration.text), Zero)

\* main: REDEEM_DURATION ? parseInt(REDEEM_DURATION, 10) : null, and the test
\* redeemDurationMinutes && redeemDurationMinutes > 0 that guards setInterval.
RedeemTimerSet(duration) ==
    /\ Truthy(duration)
    /\ LET redeemDurationMinutes == ParseInt(duration.text)
       IN  /\ ~IsNaN(redeemDurationMinutes)
           /\ redeemDurationMinutes # Zero
           /\ RGt(redeemDurationMinutes, Zero)

\* Values of REDEEM_DURATION: unset, empty, 0, 5, -1, not a number.
RedeemDurations ==
    {Absent, Text(<< >>), Text(<<"0">>), Text(<<"5">>), Text(<<"-", "1">>), Text(<<"x">>)}

\* The configuration with the REDEEM_DURATION text it was read from.
TimerConfig(duration) ==
    Config(One, NoNumber, TRUE, TRUE, RedeemTimerSet(duration))
        @@ [redeemDuration |-> duration]

\* The ledger documents the process may find on disk when it starts.
InitialLedgers ==
    {[m \in {} |-> << >>],
     [m \in {"mA"} |-> [t \in {"t1"} |-> Rat(5, 1)]],
     [m \in {"mA"} |-> [t \in {"t1", "t2"} |-> Rat(2, 1)]],
     [m \in {"mA", "mB"} |-> [t \in {"t1"} |-> IF m = "mA" THEN One ELSE Zero]]}

\* ------------------------------------------------------ messages (inputs)
SELL == <<"S", "E", "L", "L">>
BUY == <<"B", "U", "Y">>

Trade(wallet, m, t, side, price, size) ==
    [kind |-> "message", topic |-> "activity", type |-> "trades",
     payload |-> [proxyWallet |-> wallet, conditionId |-> m, asset |-> t,
                  side |-> side, price |-> price, size |-> size]]

\* (market, token) pairs the tracked wallet trades.
TradedKeys == {<<"mA", "t1">>, <<"mA", "t2">>, <<"mB", "t1">>}
\* (price, size) of the trades of the tracked wallet.
PriceSizes == {<<Rat(1, 2), Rat(4, 1)>>, <<Rat(1, 4), One>>}

FeedMessages ==
    {Trade(Text(TargetWallet), k[1], k[2], side, pz[1], pz[2]) :
        k \in TradedKeys, side \in {SELL, BUY}, pz \in PriceSizes}
    \cup {Trade(Text(<<"0", "x", "a", "B">>), "mA", "t1", side, Rat(1, 2), One) :
            side \in {ToLowerCase(SELL), BUY}}
    \cup {Trade(w, "mA", "t1", BUY, Rat(1, 2), One) :
            w \in {Absent, Text(<<"0", "x", "c", "d">>)}}
    \cup {[kind |-> "message", topic |-> "comments", type |-> "trades",
           payload |-> Trade(Text(TargetWallet), "mA", "t1", BUY, Rat(1, 2), One).payload]}

\* Error messages, word by word.
NoHoldingsError == <<"No", "holdings", "available", "to", "sell">>
InsufficientBalanceError == <<"Insufficient", "USDC", "balance.", "Available:">>
NotEnoughBalanceError == <<"not", "enough", "balance", "/", "allowance">>
OrderRejectedError == <<"order", "rejected">>
TypeErrorMessage == <<"Cannot", "read", "properties", "of", "undefined">>
\* What an awaited external call may throw.
ThrownErrors == {NotEnoughBalanceError, OrderRejectedError}

\* Amount fields of a gateway response: makingAmount / takingAmount.
AmountFields ==
    {Absent, Text(<< >>), Text(<<"0">>), Text(<<"2", ".", "5">>),
     Text(<<"7">>), Text(<<"x">>)}
NoStatus == [present |-> FALSE, text |-> ""]
Statuses == {Text("FILLED"), Text("UNMATCHED")}
NullResponse ==
    [isNull |-> TRUE, status |-> NoStatus, makingAmount |-> Absent, takingAmount |-> Absent]
SellResponses ==
    {[isNull |-> FALSE, status |-> st, makingAmount |-> a, takingAmount |-> Absent] :
        st \in Statuses, a \in AmountFields}
    \cup {NullResponse, [NullResponse EXCEPT !.isNull = FALSE]}
BuyResponses ==
    {[isNull |-> FALSE, status |-> st, makingAmount |-> Absent, takingAmount |-> a] :
        st \in Statuses, a \in AmountFields}
    \cup {NullResponse, [NullResponse EXCEPT !.isNull = FALSE]}
\* Available collateral the gateway may report.
Balances == {Zero, Rat(1, 2), Rat(8, 1)}

None == [kind |-> "none"]
Tick == [kind |-> "tick"]
Resolved(h, v) == [kind |-> "settle", h |-> h, rejected |-> FALSE, value |-> v, error |-> << >>]
\* v is a placeholder of the type the call would have returned.
Rejected(h, e, v) == [kind |-> "settle", h |-> h, rejected |-> TRUE, value |-> v, error |-> e]

\* ----------------------------------------------------------------- state
VARIABLES
    cfg,                  \* the configuration main() read
    isCopyTradingPaused,  \* index.ts: let isCopyTradingPaused
    holdingsFile,         \* the persisted ledger document
    io,                   \* the message the event loop is delivering
    handlers,             \* the onMessage invocations, by arrival number
    nEvents,              \* feed messages handled so far
    sweeps,               \* the performRedemption invocations, by tick number
    nTicks                \* timer ticks handled so far

vars == <<cfg, isCopyTradingPaused, holdingsFile, io, handlers, nEvents, sweeps, nTicks>>

NoOrder == [tokenID |-> "", side |-> << >>, amount |-> Zero]
NoResult == [success |-> FALSE, error |-> << >>]
IdleHandler ==
    [pc |-> "idle", market |-> "", token |-> "", price |-> Zero,
     order |-> NoOrder, calls |-> 0, err |-> << >>, result |-> NoResult]
ExitedHandler == [IdleHandler EXCEPT !.pc = "exited"]

Failure(e) == [success |-> FALSE, error |-> e]
Success == [success |-> TRUE, error |-> << >>]

\* ------------------------------------------------------------- copyTrade
\* order-builder/helpers.ts, tradeToMarketOrder: the BUY order of a trade.
\* amount = price * size * sizeMultiplier, capped at maxAmount when set.
tradeToMarketOrder(options) ==
    LET trade == options.trade
        raw == RMul(RMul(trade.price, trade.size), options.sizeMultiplier)
    IN  [tokenID |-> trade.asset,
         side |-> BUY,
         amount |-> IF options.maxAmount.present /\ RGt(raw, options.maxAmount.value)
                    THEN options.maxAmount.value ELSE raw]

\* The options without the configured maximum.
CopyTradeOptionsNoMax(payload) ==
    [trade |-> payload, sizeMultiplier |-> cfg.sizeMultiplier, maxAmount |-> NoNumber]

\* index.ts: the options onMessage passes to copyTrade.
CopyTradeOptions(payload) ==
    [trade |-> payload, sizeMultiplier |-> cfg.sizeMultiplier, maxAmount |-> cfg.maxAmount]

\* The test without its boundary: a quantity of 0 is sold.
NoHoldingsToSellStrict(holdingsAmount) == RLt(holdingsAmount, Zero)

\* copyTrade: if (holdingsAmount <= 0).
NoHoldingsToSell(holdingsAmount) == RLe(holdingsAmount, Zero)

\* A SELL that follows the size of the target's sale.
SellOrderSized(trade, holdingsAmount) ==
    [tokenID |-> trade.asset, side |-> SELL,
     amount |-> IF RLt(trade.size, holdingsAmount) THEN trade.size ELSE holdingsAmount]

\* copyTrade: the SELL order sells everything held.
SellOrder(trade, holdingsAmount) ==
    [tokenID |-> trade.asset, side |-> SELL, amount |-> holdingsAmount]

\* The reconciliation without the reported figure.
TokensSoldRequested(response, sellAmount) == sellAmount

\* copyTrade: response.makingAmount ? parseFloat(response.makingAmount) : sellAmount
TokensSold(response, sellAmount) ==
    IF Truthy(response.makingAmount)
    THEN ParseFloat(response.makingAmount.text)
    ELSE sellAmount

\* copyTrade: response.takingAmount ? parseFloat(response.takingAmount) : 0
TokensReceived(response) ==
    IF Truthy(response.takingAmount)
    THEN ParseFloat(response.takingAmount.text)
    ELSE Zero

\* The test without its boundary: a balance of 0 goes on to the order.
InsufficientBalanceStrict(balanceCheck) ==
    ~balanceCheck.valid /\ RLt(balanceCheck.available, Zero)

\* copyTrade: !balanceCheck.valid and balanceCheck.available <= 0.
InsufficientBalance(balanceCheck) ==
    ~balanceCheck.valid /\ RLe(balanceCheck.available, Zero)

\* The order amount left as intended.
AdjustedAmountUnclamped(balanceCheck, amount) == amount

\* copyTrade: the order amount after the balance check.
AdjustedAmount(balanceCheck, amount) ==
    IF ~balanceCheck.valid THEN balanceCheck.available ELSE amount

\* utils/balance.ts, validateBuyOrderBalance: the order is covered when the
\* available collateral is at least the required amount.
validateBuyOrderBalance(available, required) ==
    [valid |-> RGe(available, required), required |-> required, available |-> available]

\* trade.price || 1
PriceOr1(p) == IF IsNaN(p) \/ p.n = 0 THEN One ELSE p

\* An estimate that multiplies by the price.
EstimatedTokensTimes(amount, price) == RMul(amount, PriceOr1(price))

\* copyTrade: estimatedTokens = marketOrder.amount / (trade.price || 1)
EstimatedTokens(amount, price) == RDiv(amount, PriceOr1(price))

\* A catch block that handles the balance/allowance errors only and lets
\* every other error leave copyTrade.
CatchRethrow(hr, msg) ==
    IF Includes(msg, <<"not", "enough", "balance">>) \/ Includes(msg, <<"allowance">>)
    THEN [hr EXCEPT !.pc = "diagDisplay", !.err = msg]
    ELSE [hr EXCEPT !.pc = "threw", !.err = msg]

\* The catch block of copyTrade: a balance/allowance error starts the
\* diagnostic pass (await displayWalletBalance), any other error is returned.
Catch(hr, msg) ==
    IF Includes(msg, <<"not", "enough", "balance">>) \/ Includes(msg, <<"allowance">>)
    THEN [hr EXCEPT !.pc = "diagDisplay", !.err = msg]
    ELSE [hr EXCEPT !.pc = "returned", !.result = Failure(msg)]

\* copyTrade from its first line to its first await (or early return).
CopyTradeStart(hr, options, file) ==
    LET trade == options.trade IN
    IF ToUpperCase(trade.side) = SELL
    THEN LET holdingsAmount == getHoldings(file, trade.conditionId, trade.asset)
         IN  IF NoHoldingsToSell(holdingsAmount)
             THEN [hr EXCEPT !.pc = "returned",
                             !.market = trade.conditionId, !.token = trade.asset,
                             !.result = Failure(NoHoldingsError)]
             ELSE [hr EXCEPT !.pc = "awaitSellOrder",
                             !.market = trade.conditionId, !.token = trade.asset,
                             !.order = SellOrder(trade, holdingsAmount),
                             !.calls = 1]
    ELSE [hr EXCEPT !.pc = "awaitRefresh",
                    !.market = trade.conditionId, !.token = trade.asset,
                    !.price = trade.price,
                    !.order = tradeToMarketOrder(options)]

\* The test of the pause flag alone.
ShouldCopyUnlessPaused == ~isCopyTradingPaused

\* The test without the pause flag.
ShouldCopyWhilePaused == cfg.orderBuilder /\ cfg.enableCopyTrading

\* onMessage: orderBuilder && enableCopyTrading && !isCopyTradingPaused
ShouldCopy == cfg.orderBuilder /\ cfg.enableCopyTrading /\ ~isCopyTradingPaused

\* A comparison that is exact in letter case.
WalletMatchesExact(payload) ==
    /\ payload.proxyWallet.present
    /\ payload.proxyWallet.text = TargetWallet

\* onMessage: payload.proxyWallet?.toLowerCase() === targetWalletAddress.toLowerCase()
WalletMatches(payload) ==
    /\ payload.proxyWallet.present
    /\ ToLowerCase(payload.proxyWallet.text) = ToLowerCase(TargetWallet)

\* index.ts, onMessage: one feed message, up to the first await.
OnMessage ==
    /\ io.kind = "message"
    /\ LET h == nEvents + 1
           hr == handlers[h]
           payload == io.payload
       IN  /\ nEvents' = h
           /\ handlers' =
                [handlers EXCEPT ![h] =
                    IF io.topic # "activity" \/ io.type # "trades" THEN [hr EXCEPT !.pc = "ignored"]
                    ELSE IF ~WalletMatches(payload) THEN [hr EXCEPT !.pc = "ignored"]
                    ELSE IF ShouldCopy
                         THEN CopyTradeStart(hr, CopyTradeOptions(payload), holdingsFile)
                    ELSE IF cfg.enableCopyTrading /\ isCopyTradingPaused
                         THEN [hr EXCEPT !.pc = "paused"]
                    ELSE [hr EXCEPT !.pc = "notCopied"]]
    /\ io' = None
    /\ UNCHANGED <<cfg, isCopyTradingPaused, holdingsFile, sweeps, nTicks>>

Settled(h, pc) ==
    /\ io.kind = "settle"
    /\ io.h = h
    /\ handlers[h].pc = pc

\* A SELL branch that takes the quantity off the ledger whether or not the
\* gateway accepted the order.
SellOrderSettledOptimistic(h) ==
    /\ Settled(h, "awaitSellOrder")
    /\ LET hr == handlers[h]
           response == io.value
       IN  /\ holdingsFile' = removeHoldings(holdingsFile, hr.market, hr.token, hr.order.amount)
           /\ handlers' = [handlers EXCEPT ![h] =
                 IF io.rejected THEN Catch(hr, io.error)
                 ELSE IF response.isNull THEN Catch(hr, TypeErrorMessage)
                 ELSE [hr EXCEPT !.pc = "returned", !.result = Success]]
    /\ io' = None
    /\ UNCHANGED <<cfg, isCopyTradingPaused, nEvents, sweeps, nTicks>>

\* A SELL branch that looks at the pause flag again when the order call
\* returns and gives up the reconciliation while a sweep has it set.
SellOrderSettledChecksPause(h) ==
    /\ Settled(h, "awaitSellOrder")
    /\ LET hr == handlers[h]
           response == io.value
       IN  IF io.rejected
           THEN /\ handlers' = [handlers EXCEPT ![h] = Catch(hr, io.error)]
                /\ UNCHANGED holdingsFile
           ELSE IF response.isNull
           THEN /\ handlers' = [handlers EXCEPT ![h] = Catch(hr, TypeErrorMessage)]
                /\ UNCHANGED holdingsFile
           ELSE LET tokensSold == TokensSold(response, hr.order.amount)
                IN  /\ holdingsFile' =
                         IF RGt(tokensSold, Zero) /\ ~isCopyTradingPaused
                         THEN removeHoldings(holdingsFile, hr.market, hr.token, tokensSold)
                         ELSE holdingsFile
                    /\ handlers' = [handlers EXCEPT ![h] =
                                      [hr EXCEPT !.pc = "returned", !.result = Success]]
    /\ io' = None
    /\ UNCHANGED <<cfg, isCopyTradingPaused, nEvents, sweeps, nTicks>>

\* createAndPostMarketOrder of the SELL branch has settled.
SellOrderSettled(h) ==
    /\ Settled(h, "awaitSellOrder")
    /\ LET hr == handlers[h]
           response == io.value
       IN  IF io.rejected
           THEN /\ handlers' = [handlers EXCEPT ![h] = Catch(hr, io.error)]
                /\ UNCHANGED holdingsFile
           ELSE IF response.isNull
           THEN /\ handlers' = [handlers EXCEPT ![h] = Catch(hr, TypeErrorMessage)]
                /\ UNCHANGED holdingsFile
           ELSE LET tokensSold == TokensSold(response, hr.order.amount)
                IN  /\ holdingsFile' =
                         IF RGt(tokensSold, Zero)
                         THEN removeHoldings(holdingsFile, hr.market, hr.token, tokensSold)
                         ELSE holdingsFile
                    /\ handlers' = [handlers EXCEPT ![h] =
                                      [hr EXCEPT !.pc = "returned", !.result = Success]]
    /\ io' = None
    /\ UNCHANGED <<cfg, isCopyTradingPaused, nEvents, sweeps, nTicks>>

\* A refresh whose failure reaches the catch block of copyTrade.
RefreshSettledFatal(h) ==
    /\ Settled(h, "awaitRefresh")
    /\ handlers' = [handlers EXCEPT ![h] =
                      IF io.rejected THEN Catch(@, io.error)
                      ELSE [@ EXCEPT !.pc = "awaitDisplay"]]
    /\ io' = None
    /\ UNCHANGED <<cfg, isCopyTradingPaused, holdingsFile, nEvents, sweeps, nTicks>>

\* updateBalanceAllowance before the balance check has settled; a failure is
\* logged and ignored.  Next await: displayWalletBalance.
RefreshSettled(h) ==
    /\ Settled(h, "awaitRefresh")
    /\ handlers' = [handlers EXCEPT ![h].pc = "awaitDisplay"]
    /\ io' = None
    /\ UNCHANGED <<cfg, isCopyTradingPaused, holdingsFile, nEvents, sweeps, nTicks>>

\* displayWalletBalance has settled.  Next await: validateBuyOrderBalance.
DisplaySettled(h) ==
    /\ Settled(h, "awaitDisplay")
    /\ handlers' = [handlers EXCEPT ![h] =
                      IF io.rejected THEN Catch(@, io.error)
                      ELSE [@ EXCEPT !.pc = "awaitValidate"]]
    /\ io' = None
    /\ UNCHANGED <<cfg, isCopyTradingPaused, holdingsFile, nEvents, sweeps, nTicks>>

\* validateBuyOrderBalance has settled: fail on no balance, clamp on a
\* shortfall, then submit the order.
ValidateSettled(h) ==
    /\ Settled(h, "awaitValidate")
    /\ LET hr == handlers[h]
           balanceCheck == validateBuyOrderBalance(io.value, hr.order.amount)
       IN  handlers' = [handlers EXCEPT ![h] =
              IF io.rejected THEN Catch(hr, io.error)
              ELSE IF InsufficientBalance(balanceCheck)
              THEN [hr EXCEPT !.pc = "returned",
                              !.result = Failure(InsufficientBalanceError)]
              ELSE [hr EXCEPT !.pc = "awaitBuyOrder",
                              !.order.amount = AdjustedAmount(balanceCheck, @),
                              !.calls = @ + 1]]
    /\ io' = None
    /\ UNCHANGED <<cfg, isCopyTradingPaused, holdingsFile, nEvents, sweeps, nTicks>>

\* A BUY branch that fails on a response whose status is not a fill.
BuyOrderSettledStrict(h) ==
    /\ Settled(h, "awaitBuyOrder")
    /\ LET hr == handlers[h]
           response == io.value
       IN  IF io.rejected
           THEN /\ handlers' = [handlers EXCEPT ![h] = Catch(hr, io.error)]
                /\ UNCHANGED holdingsFile
           ELSE IF response.isNull
           THEN /\ handlers' = [handlers EXCEPT ![h] = Catch(hr, TypeErrorMessage)]
                /\ UNCHANGED holdingsFile
           ELSE IF response.status \notin {Text("FILLED"), Text("PARTIALLY_FILLED")}
           THEN /\ handlers' = [handlers EXCEPT ![h] =
                      [hr EXCEPT !.pc = "returned", !.result = Failure(OrderRejectedError)]]
                /\ UNCHANGED holdingsFile
           ELSE LET tokensReceived == TokensReceived(response)
                    estimatedTokens == EstimatedTokens(hr.order.amount, hr.price)
                IN  /\ holdingsFile' =
                         IF RGt(tokensReceived, Zero)
                         THEN addHoldings(holdingsFile, hr.market, hr.token, tokensReceived)
                         ELSE IF RGt(estimatedTokens, Zero)
                         THEN addHoldings(holdingsFile, hr.market, hr.token, estimatedTokens)
                         ELSE holdingsFile
                    /\ handlers' = [handlers EXCEPT ![h].pc = "awaitApprove"]
    /\ io' = None
    /\ UNCHANGED <<cfg, isCopyTradingPaused, nEvents, sweeps, nTicks>>

\* createAndPostMarketOrder of the BUY branch has settled.
BuyOrderSettled(h) ==
    /\ Settled(h, "awaitBuyOrder")
    /\ LET hr == handlers[h]
           response == io.value
       IN  IF io.rejected
           THEN /\ handlers' = [handlers EXCEPT ![h] = Catch(hr, io.error)]
                /\ UNCHANGED holdingsFile
           ELSE IF response.isNull
           THEN /\ handlers' = [handlers EXCEPT ![h] = Catch(hr, TypeErrorMessage)]
                /\ UNCHANGED holdingsFile
           ELSE LET tokensReceived == TokensReceived(response)
                    estimatedTokens == EstimatedTokens(hr.order.amount, hr.price)
                IN  /\ holdingsFile' =
                         IF RGt(tokensReceived, Zero)
                         THEN addHoldings(holdingsFile, hr.market, hr.token, tokensReceived)
                         ELSE IF RGt(estimatedTokens, Zero)
                         THEN addHoldings(holdingsFile, hr.market, hr.token, estimatedTokens)
                         ELSE holdingsFile
                    /\ handlers' = [handlers EXCEPT ![h].pc = "awaitApprove"]
    /\ io' = None
    /\ UNCHANGED <<cfg, isCopyTradingPaused, nEvents, sweeps, nTicks>>

\* An approval whose failure reaches the catch block of copyTrade.
ApproveSettledFatal(h) ==
    /\ Settled(h, "awaitApprove")
    /\ handlers' = [handlers EXCEPT ![h] =
                      IF io.rejected THEN Catch(@, io.error)
                      ELSE [@ EXCEPT !.pc = "returned", !.result = Success]]
    /\ io' = None
    /\ UNCHANGED <<cfg, isCopyTradingPaused, holdingsFile, nEvents, sweeps, nTicks>>

\* approveTokensAfterBuy has settled; a failure is logged and ignored.
ApproveSettled(h) ==
    /\ Settled(h, "awaitApprove")
    /\ handlers' = [handlers EXCEPT ![h] = [@ EXCEPT !.pc = "returned", !.result = Success]]
    /\ io' = None
    /\ UNCHANGED <<cfg, isCopyTradingPaused, holdingsFile, nEvents, sweeps, nTicks>>

\* A diagnostic pass whose own failure replaces the error it reports.
DiagDisplaySettledOwnError(h) ==
    /\ Settled(h, "diagDisplay")
    /\ LET hr == handlers[h]
       IN  handlers' = [handlers EXCEPT ![h] =
              IF io.rejected
              THEN [hr EXCEPT !.pc = "returned", !.result = Failure(io.error)]
              ELSE [hr EXCEPT !.pc = "diagRefresh"]]
    /\ io' = None
    /\ UNCHANGED <<cfg, isCopyTradingPaused, holdingsFile, nEvents, sweeps, nTicks>>

\* Diagnostic pass: displayWalletBalance has settled.  A failure ends the
\* pass; otherwise updateBalanceAllowance is awaited.
DiagDisplaySettled(h) ==
    /\ Settled(h, "diagDisplay")
    /\ LET hr == handlers[h]
       IN  handlers' = [handlers EXCEPT ![h] =
              IF io.rejected
              THEN [hr EXCEPT !.pc = "returned", !.result = Failure(hr.err)]
              ELSE [hr EXCEPT !.pc = "diagRefresh"]]
    /\ io' = None
    /\ UNCHANGED <<cfg, isCopyTradingPaused, holdingsFile, nEvents, sweeps, nTicks>>

\* A diagnostic pass that submits the order again once the allowance has
\* been updated.
DiagRefreshRetries(h) ==
    /\ Settled(h, "diagRefresh")
    /\ LET hr == handlers[h]
       IN  handlers' = [handlers EXCEPT ![h] =
              IF ~io.rejected /\ hr.calls > 0
              THEN [hr EXCEPT !.pc = IF hr.order.side = SELL THEN "awaitSellOrder"
                                     ELSE "awaitBuyOrder",
                              !.calls = @ + 1]
              ELSE [hr EXCEPT !.pc = "returned", !.result = Failure(hr.err)]]
    /\ io' = None
    /\ UNCHANGED <<cfg, isCopyTradingPaused, holdingsFile, nEvents, sweeps, nTicks>>

\* Diagnostic pass: updateBalanceAllowance has settled; the original error
\* is returned either way.
DiagRefreshSettled(h) ==
    /\ Settled(h, "diagRefresh")
    /\ LET hr == handlers[h]
       IN  handlers' = [handlers EXCEPT ![h] =
              [hr EXCEPT !.pc = "returned", !.result = Failure(hr.err)]]
    /\ io' = None
    /\ UNCHANGED <<cfg, isCopyTradingPaused, holdingsFile, nEvents, sweeps, nTicks>>

\* onMessage after copyTrade returned: the result is logged and the
\* invocation ends.
OnMessageReturn(h) ==
    /\ io.kind = "none"
    /\ handlers[h].pc = "returned"
    /\ handlers' = [handlers EXCEPT ![h] = ExitedHandler]
    /\ UNCHANGED <<cfg, isCopyTradingPaused, holdingsFile, io, nEvents, sweeps, nTicks>>

\* ------------------------------------------- placeMarketBuy / placeMarketSell
\* placeMarketBuy up to its await: the order is built from the arguments and
\* submitted.  The call takes the next invocation record.
PlaceMarketBuy(tokenID, amount) ==
    /\ io.kind = "none"
    /\ nEvents < Len(handlers)
    /\ nEvents' = nEvents + 1
    /\ handlers' = [handlers EXCEPT ![nEvents + 1] =
            [@ EXCEPT !.pc = "awaitPlaceBuy", !.token = tokenID,
                      !.order = [tokenID |-> tokenID, side |-> BUY, amount |-> amount],
                      !.calls = 1]]
    /\ UNCHANGED <<cfg, isCopyTradingPaused, holdingsFile, io, sweeps, nTicks>>

\* placeMarketSell up to its await.
PlaceMarketSell(tokenID, amount) ==
    /\ io.kind = "none"
    /\ nEvents < Len(handlers)
    /\ nEvents' = nEvents + 1
    /\ handlers' = [handlers EXCEPT ![nEvents + 1] =
            [@ EXCEPT !.pc = "awaitPlaceSell", !.token = tokenID,
                      !.order = [tokenID |-> tokenID, side |-> SELL, amount |-> amount],
                      !.calls = 1]]
    /\ UNCHANGED <<cfg, isCopyTradingPaused, holdingsFile, io, sweeps, nTicks>>

\* A direct placement that books an accepted BUY on the ledger.
PlaceOrderSettledRecords(h) ==
    /\ io.kind = "settle"
    /\ io.h = h
    /\ handlers[h].pc \in {"awaitPlaceBuy", "awaitPlaceSell"}
    /\ handlers' = [handlers EXCEPT ![h] =
            [@ EXCEPT !.pc = "returned",
                      !.result = IF io.rejected THEN Failure(io.error)
                                 ELSE IF io.value.isNull THEN Failure(TypeErrorMessage)
                                 ELSE Success]]
    /\ holdingsFile' =
          IF ~io.rejected /\ ~io.value.isNull /\ handlers[h].pc = "awaitPlaceBuy"
          THEN addHoldings(holdingsFile, "mA", handlers[h].token, handlers[h].order.amount)
          ELSE holdingsFile
    /\ io' = None
    /\ UNCHANGED <<cfg, isCopyTradingPaused, nEvents, sweeps, nTicks>>

\* The try/catch of placeMarketBuy and placeMarketSell around the awaited
\* createAndPostMarketOrder: a rejection, or reading orderID of a null
\* response, is returned as a failure; the ledger is not touched.
PlaceOrderSettled(h) ==
    /\ io.kind = "settle"
    /\ io.h = h
    /\ handlers[h].pc \in {"awaitPlaceBuy", "awaitPlaceSell"}
    /\ handlers' = [handlers EXCEPT ![h] =
            [@ EXCEPT !.pc = "returned",
                      !.result = IF io.rejected THEN Failure(io.error)
                                 ELSE IF io.value.isNull THEN Failure(TypeErrorMessage)
                                 ELSE Success]]
    /\ io' = None
    /\ UNCHANGED <<cfg, isCopyTradingPaused, holdingsFile, nEvents, sweeps, nTicks>>

\* ------------------------------------------------------ redemption sweep
\* A larger attempt count.
maxRetriesFive == 3 + 2

\* index.ts: autoRedeemResolvedMarkets({ maxRetries: 3 }).
maxRetries == 3

NoCounts == [total |-> 0, resolved |-> 0, redeemed |-> 0, failed |-> 0]
IdleSweep ==
    [pc |-> "idle", todo |-> << >>, held |-> << >>, attempts |-> 0,
     counts |-> NoCounts, outcome |-> << >>, thrown |-> FALSE]
ExitedSweep == [IdleSweep EXCEPT !.pc = "exited"]

\* Answers of the resolution gateway: not resolved, or the winning token.
Unresolved == [resolved |-> FALSE, winner |-> ""]
Winner(t) == [resolved |-> TRUE, winner |-> t]
\* Settlements of the sweep's awaited calls (the value of a redemption call
\* and of a rejected call is not used).
SweepResolved(s, v) == [kind |-> "sweepSettle", s |-> s, rejected |-> FALSE, value |-> v]
SweepRejected(s) == [kind |-> "sweepSettle", s |-> s, rejected |-> TRUE, value |-> Unresolved]

\* utils/redeem.ts, the sweep's loop head: query the next market's
\* resolution, or return the counts when no market is left.
SweepAdvance(sr) ==
    IF sr.todo = << >>
    THEN [sr EXCEPT !.pc = "returning"]
    ELSE [sr EXCEPT !.pc = "awaitResolution", !.attempts = 0]

\* The market the sweep is working on.
Cur(sr) == Head(sr.todo)

\* index.ts, performRedemption up to the first await: the pause flag is set
\* and autoRedeemResolvedMarkets enumerates the ledger.
PerformRedemption ==
    /\ io.kind = "tick"
    /\ LET s == nTicks + 1
           doc == LoadHoldings(holdingsFile)
           markets == InOrder(MarketOrder, DOMAIN doc)
       IN  /\ nTicks' = s
           /\ sweeps' = [sweeps EXCEPT ![s] =
                SweepAdvance([IdleSweep EXCEPT
                    !.todo = markets,
                    !.held = [m \in DOMAIN doc |-> DOMAIN doc[m]],
                    !.counts = [NoCounts EXCEPT !.total = Len(markets)],
                    !.outcome = [m \in DOMAIN doc |-> "pending"]])]
    /\ isCopyTradingPaused' = TRUE
    /\ io' = None
    /\ UNCHANGED <<cfg, holdingsFile, handlers, nEvents>>

SweepSettled(s, pc) ==
    /\ io.kind = "sweepSettle"
    /\ io.s = s
    /\ sweeps[s].pc = pc

\* performRedemption ending with the flag left as it is.
FinallyMissing(s, sr) ==
    /\ sweeps' = [sweeps EXCEPT ![s] = [sr EXCEPT !.pc = "done"]]
    /\ UNCHANGED isCopyTradingPaused

\* The finally block of performRedemption: copy trading resumes.
Finally(s, sr) ==
    /\ sweeps' = [sweeps EXCEPT ![s] = [sr EXCEPT !.pc = "done"]]
    /\ isCopyTradingPaused' = FALSE

\* A sweep that ends at the market whose redemption failed on every attempt.
GiveUpOnSweep(sr, m) ==
    [sr EXCEPT !.pc = "returning", !.counts.failed = @ + 1, !.outcome[m] = "failed"]

\* utils/redeem.ts: every attempt failed; the market is counted as failed
\* and the sweep goes on to the next one.
GiveUpOnMarket(sr, m) ==
    SweepAdvance([sr EXCEPT !.todo = Tail(@),
                            !.counts.failed = @ + 1,
                            !.outcome[m] = "failed"])

\* A count of resolved holdings, one per token held.
MarkResolvedPerToken(sr, m) ==
    [sr EXCEPT !.counts.resolved = @ + Cardinality(sr.held[m])]

\* utils/redeem.ts: the market is resolved and counts once.
MarkResolved(sr, m) == [sr EXCEPT !.counts.resolved = @ + 1]

\* A sweep that attempts the redemption of every resolved market.
ResolutionSettledRedeemsAll(s) ==
    /\ SweepSettled(s, "awaitResolution")
    /\ LET sr == sweeps[s]
           m == Cur(sr)
       IN  IF io.rejected
           THEN Finally(s, [sr EXCEPT !.thrown = TRUE])
           ELSE /\ sweeps' = [sweeps EXCEPT ![s] =
                     IF ~io.value.resolved
                     THEN SweepAdvance([sr EXCEPT !.todo = Tail(@),
                                                  !.outcome[m] = "unresolved"])
                     ELSE [MarkResolved(sr, m) EXCEPT !.pc = "awaitRedeem", !.attempts = 1]]
                /\ UNCHANGED isCopyTradingPaused
    /\ io' = None
    /\ UNCHANGED <<cfg, holdingsFile, handlers, nEvents, nTicks>>

\* The resolution query of the current market has settled.
ResolutionSettled(s) ==
    /\ SweepSettled(s, "awaitResolution")
    /\ LET sr == sweeps[s]
           m == Cur(sr)
       IN  IF io.rejected
           THEN \* the exception leaves autoRedeemResolvedMarkets: catch, finally
                Finally(s, [sr EXCEPT !.thrown = TRUE])
           ELSE /\ sweeps' = [sweeps EXCEPT ![s] =
                     IF ~io.value.resolved
                     THEN SweepAdvance([sr EXCEPT !.todo = Tail(@),
                                                  !.outcome[m] = "unresolved"])
                     ELSE IF io.value.winner \in sr.held[m]
                     THEN [MarkResolved(sr, m) EXCEPT !.pc = "awaitRedeem", !.attempts = 1]
                     ELSE SweepAdvance([MarkResolved(sr, m) EXCEPT
                                            !.todo = Tail(@),
                                            !.outcome[m] = "lost"])]
                /\ UNCHANGED isCopyTradingPaused
    /\ io' = None
    /\ UNCHANGED <<cfg, holdingsFile, handlers, nEvents, nTicks>>

\* A successful redemption that rewrites the ledger as the entries the sweep
\* enumerated at its start, less the redeemed market.
RedeemSettledWritesEnumeration(s) ==
    /\ SweepSettled(s, "awaitRedeem")
    /\ LET sr == sweeps[s]
           m == Cur(sr)
           doc == LoadHoldings(holdingsFile)
           kept == {k \in (DOMAIN doc \cap DOMAIN sr.held) \ {m} :
                        DOMAIN doc[k] \cap sr.held[k] # {}}
       IN  IF ~io.rejected
           THEN /\ holdingsFile' = SaveHoldings(
                     [k \in kept |-> [t \in DOMAIN doc[k] \cap sr.held[k] |-> doc[k][t]]])
                /\ sweeps' = [sweeps EXCEPT ![s] =
                     SweepAdvance([sr EXCEPT !.todo = Tail(@),
                                             !.counts.redeemed = @ + 1,
                                             !.outcome[m] = "redeemed"])]
           ELSE /\ UNCHANGED holdingsFile
                /\ sweeps' = [sweeps EXCEPT ![s] =
                     IF sr.attempts < maxRetries
                     THEN [sr EXCEPT !.attempts = @ + 1]
                     ELSE GiveUpOnMarket(sr, m)]
    /\ io' = None
    /\ UNCHANGED <<cfg, isCopyTradingPaused, handlers, nEvents, nTicks>>

\* A redemption attempt for the current market has settled.
RedeemSettled(s) ==
    /\ SweepSettled(s, "awaitRedeem")
    /\ LET sr == sweeps[s]
           m == Cur(sr)
       IN  IF ~io.rejected
           THEN /\ holdingsFile' = clearMarketHoldings(holdingsFile, m)
                /\ sweeps' = [sweeps EXCEPT ![s] =
                     SweepAdvance([sr EXCEPT !.todo = Tail(@),
                                             !.counts.redeemed = @ + 1,
                                             !.outcome[m] = "redeemed"])]
           ELSE /\ UNCHANGED holdingsFile
                /\ sweeps' = [sweeps EXCEPT ![s] =
                     IF sr.attempts < maxRetries
                     THEN [sr EXCEPT !.attempts = @ + 1]
                     ELSE GiveUpOnMarket(sr, m)]
    /\ io' = None
    /\ UNCHANGED <<cfg, isCopyTradingPaused, handlers, nEvents, nTicks>>

\* autoRedeemResolvedMarkets returned its counts: the summary is logged and
\* the finally block resumes copy trading.
RedemptionReturned(s) ==
    /\ io.kind = "none"
    /\ sweeps[s].pc = "returning"
    /\ Finally(s, sweeps[s])
    /\ UNCHANGED <<cfg, holdingsFile, io, handlers, nEvents, nTicks>>

\* The performRedemption invocation is over.
RedemptionExit(s) ==
    /\ io.kind = "none"
    /\ sweeps[s].pc = "done"
    /\ sweeps' = [sweeps EXCEPT ![s] = ExitedSweep]
    /\ UNCHANGED <<cfg, isCopyTradingPaused, holdingsFile, io, handlers, nEvents, nTicks>>

\* ----------------------------------------------------------- environment
\* The external collaborators, as the sets of things they may do: env.feed
\* the messages of the feed, env.sells / env.buys the responses of the
\* execution gateway, env.balances the collateral it reports, env.thrown the
\* errors an awaited call may throw, env.resolutions the answers of the
\* resolution gateway.
FullEnv ==
    [feed |-> FeedMessages, sells |-> SellResponses, buys |-> BuyResponses,
     balances |-> Balances, thrown |-> ThrownErrors,
     resolutions |-> {Unresolved} \cup {Winner(t) : t \in Tokens}]

\* Invocations a behaviour may still start.
Budget == MaxInvocations

\* The feed delivers a message.
FeedDelivers(env) ==
    /\ io.kind = "none"
    /\ nEvents < Len(handlers)
    /\ nEvents + nTicks < Budget
    /\ io' \in env.feed
    /\ UNCHANGED <<cfg, isCopyTradingPaused, holdingsFile, handlers, nEvents, sweeps, nTicks>>

\* setInterval(performRedemption, ...) fires; the timer exists only when
\* REDEEM_DURATION is a positive number.
TimerFires ==
    /\ io.kind = "none"
    /\ cfg.redeemEnabled
    /\ nTicks < Len(sweeps)
    /\ nEvents + nTicks < Budget
    /\ io' = Tick
    /\ UNCHANGED <<cfg, isCopyTradingPaused, holdingsFile, handlers, nEvents, sweeps, nTicks>>

\* What the call a copyTrade invocation awaits may settle with.
HandlerSettlements(env, h) ==
    LET pc == handlers[h].pc
        thrown(v) == {Rejected(h, e, v) : e \in env.thrown}
    IN  CASE pc = "awaitSellOrder" ->
               {Resolved(h, r) : r \in env.sells} \cup thrown(NullResponse)
          [] pc = "awaitBuyOrder" ->
               {Resolved(h, r) : r \in env.buys} \cup thrown(NullResponse)
          [] pc = "awaitPlaceSell" ->
               {Resolved(h, r) : r \in env.sells} \cup thrown(NullResponse)
          [] pc = "awaitPlaceBuy" ->
               {Resolved(h, r) : r \in env.buys} \cup thrown(NullResponse)
          [] pc = "awaitValidate" -> {Resolved(h, b) : b \in env.balances} \cup thrown(Zero)
          [] pc \in {"awaitRefresh", "awaitDisplay", "awaitApprove",
                     "diagDisplay", "diagRefresh"} -> {Resolved(h, Zero)} \cup thrown(Zero)
          [] OTHER -> {}

\* An external call awaited by a copyTrade invocation settles.
GatewaySettles(env, h) ==
    /\ io.kind = "none"
    /\ io' \in HandlerSettlements(env, h)
    /\ UNCHANGED <<cfg, isCopyTradingPaused, holdingsFile, handlers, nEvents, sweeps, nTicks>>

SweepSettlements(env, s) ==
    LET pc == sweeps[s].pc
    IN  CASE pc = "awaitResolution" ->
               {SweepResolved(s, r) : r \in env.resolutions} \cup {SweepRejected(s)}
          [] pc = "awaitRedeem" -> {SweepResolved(s, Unresolved), SweepRejected(s)}
          [] OTHER -> {}

\* An external call awaited by a sweep settles.
RedemptionGatewaySettles(env, s) ==
    /\ io.kind = "none"
    /\ io' \in SweepSettlements(env, s)
    /\ UNCHANGED <<cfg, isCopyTradingPaused, holdingsFile, handlers, nEvents, sweeps, nTicks>>

\* --------------------------------------------------------- specification
\* The state when main() has returned: nothing delivered yet.  events and
\* ticks bound the messages and timer ticks of one behaviour.
InitWith(configs, ledgers, events, ticks) ==
    /\ cfg \in configs
    /\ isCopyTradingPaused = FALSE
    /\ holdingsFile \in {SaveHoldings(d) : d \in ledgers}
    /\ io = None
    /\ handlers = [h \in 1..events |-> IdleHandler]
    /\ nEvents = 0
    /\ sweeps = [s \in 1..ticks |-> IdleSweep]
    /\ nTicks = 0

HandlerStep(h) ==
    \/ SellOrderSettled(h)
    \/ RefreshSettled(h)
    \/ DisplaySettled(h)
    \/ ValidateSettled(h)
    \/ BuyOrderSettled(h)
    \/ ApproveSettled(h)
    \/ DiagDisplaySettled(h)
    \/ DiagRefreshSettled(h)
    \/ OnMessageReturn(h)

SweepStep(s) ==
    \/ ResolutionSettled(s)
    \/ RedeemSettled(s)
    \/ RedemptionReturned(s)
    \/ RedemptionExit(s)

\* The copy pipeline alone.
CopyNext(env) ==
    \/ FeedDelivers(env)
    \/ OnMessage
    \/ \E h \in DOMAIN handlers : GatewaySettles(env, h) \/ HandlerStep(h)

\* The redemption coordinator alone.
RedeemNext(env) ==
    \/ TimerFires
    \/ PerformRedemption
    \/ \E s \in DOMAIN sweeps : RedemptionGatewaySettles(env, s) \/ SweepStep(s)

\* The whole bot: feed messages and timer ticks in any interleaving, with a
\* small repertoire of messages and answers.
SmallEnv ==
    [feed |-> {Trade(Text(TargetWallet), "mA", "t1", side, Rat(1, 2), Rat(4, 1)) :
                  side \in {SELL, BUY}},
     sells |-> {[isNull |-> FALSE, status |-> Text("FILLED"),
                 makingAmount |-> a, takingAmount |-> Absent] :
                    a \in {Absent, Text(<<"2", ".", "5">>)}},
     buys |-> {[isNull |-> FALSE, status |-> Text("FILLED"),
                makingAmount |-> Absent, takingAmount |-> Text(<<"7">>)]},
     balances |-> {Zero, Rat(1, 2)},
     thrown |-> {NotEnoughBalanceError},
     resolutions |-> {Unresolved} \cup {Winner(t) : t \in Tokens}]

Init ==
    InitWith({Config(One, NoNumber, TRUE, TRUE, TRUE)},
             {[m \in {"mA"} |-> [t \in {"t1"} |-> Rat(5, 1)]]},
             MaxInvocations, MaxInvocations)

Next == CopyNext(SmallEnv) \/ RedeemNext(SmallEnv)

Spec == Init /\ [][Next]_vars

\* The copy pipeline with the timer off (REDEEM_DURATION unset), with the
\* full repertoire of messages and gateway responses.
InitCopy == InitWith(CopyConfigs(FALSE), InitialLedgers, MaxCopyEvents, 0)

NextCopy == CopyNext(FullEnv)

SpecCopy == InitCopy /\ [][NextCopy]_vars

\* The copy pipeline with the timer off, fed with purchases that include the
\* degenerate ones (size 0, price 0) and answered without or with a
\* tokens-received figure.
EdgeEnv ==
    [FullEnv EXCEPT
        !.feed = {Trade(Text(TargetWallet), "mA", "t1", BUY, pz[1], pz[2]) :
                     pz \in PriceSizes \cup {<<Rat(1, 2), Zero>>, <<Zero, Rat(4, 1)>>}}
                 \cup {Trade(Text(TargetWallet), "mA", "t1", SELL, Rat(1, 2), Rat(4, 1))},
        !.sells = {[isNull |-> FALSE, status |-> Text("FILLED"),
                    makingAmount |-> Absent, takingAmount |-> Absent]},
        !.buys = {[isNull |-> FALSE, status |-> Text("FILLED"),
                   makingAmount |-> Absent, takingAmount |-> a] :
                      a \in {Absent, Text(<< >>), Text(<<"7">>)}},
        !.thrown = {NotEnoughBalanceError}]

InitEstimate ==
    InitWith(CopyConfigs(FALSE),
             {[m \in {} |-> << >>], [m \in {"mA"} |-> [t \in {"t1"} |-> Rat(5, 1)]]},
             MaxCopyEvents, 0)

NextEstimate == CopyNext(EdgeEnv)

SpecEstimate == InitEstimate /\ [][NextEstimate]_vars

\* The ledger on its own: the operations of utils/holdings.ts called with
\* any traded key and amount, from any initial ledger.
LedgerAmounts == {One, Rat(5, 2)}

AddHoldingsCall(m, t, a) ==
    /\ RLe(RAdd(getHoldings(holdingsFile, m, t), a), Rat(MaxQuantity, 1))
    /\ holdingsFile' = addHoldings(holdingsFile, m, t, a)
    /\ UNCHANGED <<cfg, isCopyTradingPaused, io, handlers, nEvents, sweeps, nTicks>>

RemoveHoldingsCall(m, t, a) ==
    /\ holdingsFile' = removeHoldings(holdingsFile, m, t, a)
    /\ UNCHANGED <<cfg, isCopyTradingPaused, io, handlers, nEvents, sweeps, nTicks>>

InitLedger ==
    InitWith({Config(One, NoNumber, TRUE, TRUE, FALSE)}, InitialLedgers, 0, 0)

NextLedger ==
    \E k \in TradedKeys, a \in LedgerAmounts :
        AddHoldingsCall(k[1], k[2], a) \/ RemoveHoldingsCall(k[1], k[2], a)

SpecLedger == InitLedger /\ [][NextLedger]_vars

\* The copy pipeline against a gateway whose responses never report a fill:
\* the status is another one, or is missing.
UnfilledEnv ==
    [FullEnv EXCEPT
        !.sells = {r \in SellResponses : ~r.isNull /\ r.status # Text("FILLED")},
        !.buys = {r \in BuyResponses : ~r.isNull /\ r.status # Text("FILLED")}]

NextUnfilled == CopyNext(UnfilledEnv)

SpecUnfilled == InitEstimate /\ [][NextUnfilled]_vars

\* security/allowance.ts, approveTokensAfterBuy without PRIVATE_KEY: it throws.
PrivateKeyError == <<"PRIVATE_KEY", "not", "found", "in", "environment">>

\* The approval awaited after a BUY fails.
ApprovalFails(h) ==
    /\ io.kind = "none"
    /\ handlers[h].pc = "awaitApprove"
    /\ io' = Rejected(h, PrivateKeyError, Zero)
    /\ UNCHANGED <<cfg, isCopyTradingPaused, holdingsFile, handlers, nEvents, sweeps, nTicks>>

\* The copy pipeline in a process whose post-buy approval always fails.
NextApprove ==
    \/ FeedDelivers(EdgeEnv)
    \/ OnMessage
    \/ \E h \in DOMAIN handlers :
          \/ handlers[h].pc # "awaitApprove" /\ GatewaySettles(EdgeEnv, h)
          \/ ApprovalFails(h)
          \/ HandlerStep(h)

SpecApprove == InitEstimate /\ [][NextApprove]_vars

\* The gateway cannot be reached for the refresh.
NetworkError == <<"network", "error">>

\* updateBalanceAllowance awaited before the balance check fails.
RefreshFails(h) ==
    /\ io.kind = "none"
    /\ handlers[h].pc = "awaitRefresh"
    /\ io' = Rejected(h, NetworkError, Zero)
    /\ UNCHANGED <<cfg, isCopyTradingPaused, holdingsFile, handlers, nEvents, sweeps, nTicks>>

\* The copy pipeline against a gateway whose pre-order refresh always fails.
NextRefresh ==
    \/ FeedDelivers(EdgeEnv)
    \/ OnMessage
    \/ \E h \in DOMAIN handlers :
          \/ handlers[h].pc # "awaitRefresh" /\ GatewaySettles(EdgeEnv, h)
          \/ RefreshFails(h)
          \/ HandlerStep(h)

SpecRefresh == InitEstimate /\ [][NextRefresh]_vars

\* The order builder as its callers use it: copyTrade through onMessage, and
\* placeMarketBuy / placeMarketSell called directly, with a gateway that
\* answers, answers null, or throws.
BuilderEnv ==
    [SmallEnv EXCEPT
        !.sells = {NullResponse,
                   [isNull |-> FALSE, status |-> Text("FILLED"),
                    makingAmount |-> Absent, takingAmount |-> Absent]},
        !.buys = {NullResponse,
                  [isNull |-> FALSE, status |-> Text("FILLED"),
                   makingAmount |-> Absent, takingAmount |-> Text(<<"7">>)]},
        !.balances = {Zero, Rat(8, 1)},
        !.thrown = ThrownErrors]

InitBuilder ==
    InitWith(CopyConfigs(FALSE),
             {[m \in {} |-> << >>], [m \in {"mA"} |-> [t \in {"t1"} |-> Rat(5, 1)]]},
             MaxCopyEvents, 0)

NextBuilder ==
    \/ CopyNext(BuilderEnv)
    \/ \E t \in Tokens, a \in LedgerAmounts : PlaceMarketBuy(t, a)
    \/ \E t \in Tokens, a \in LedgerAmounts : PlaceMarketSell(t, a)
    \/ \E h \in DOMAIN handlers : PlaceOrderSettled(h)

SpecBuilder == InitBuilder /\ [][NextBuilder]_vars

\* A write in place: the file is truncated, then filled.
writeHoldingsInPlace(before, after) == <<SaveHoldings([m \in {} |-> << >>]), after>>

\* utils/holdings.ts, the write of a mutation: the contents the persisted
\* file goes through.  The new document replaces the old one in one step.
writeHoldings(before, after) == <<after>>

\* A mutation of the ledger has read the document and computed the new one;
\* its write is still to be done.
BeginMutation(after) ==
    /\ io.kind = "none"
    /\ io' = [kind |-> "mutation", before |-> holdingsFile, after |-> after,
              todo |-> writeHoldings(holdingsFile, after)]
    /\ UNCHANGED <<cfg, isCopyTradingPaused, holdingsFile, handlers, nEvents, sweeps, nTicks>>

BeginAdd(m, t, a) ==
    /\ RLe(RAdd(getHoldings(holdingsFile, m, t), a), Rat(MaxQuantity, 1))
    /\ BeginMutation(addHoldings(holdingsFile, m, t, a))

BeginRemove(m, t, a) == BeginMutation(removeHoldings(holdingsFile, m, t, a))

BeginClear(m) == BeginMutation(clearMarketHoldings(holdingsFile, m))

\* The next step of the write reaches the disk.
WriteStep ==
    /\ io.kind = "mutation"
    /\ holdingsFile' = Head(io.todo)
    /\ io' = IF Len(io.todo) = 1 THEN None ELSE [io EXCEPT !.todo = Tail(@)]
    /\ UNCHANGED <<cfg, isCopyTradingPaused, handlers, nEvents, sweeps, nTicks>>

\* The process dies during a mutation: what is in memory is lost, the file
\* stays as the last completed step left it.
Crash ==
    /\ io.kind = "mutation"
    /\ io' = [kind |-> "crashed", before |-> io.before, after |-> io.after]
    /\ UNCHANGED <<cfg, isCopyTradingPaused, holdingsFile, handlers, nEvents, sweeps, nTicks>>

\* The process is started again and reads the file.
Restart ==
    /\ io.kind = "crashed"
    /\ io' = None
    /\ UNCHANGED <<cfg, isCopyTradingPaused, holdingsFile, handlers, nEvents, sweeps, nTicks>>

NextCrash ==
    \/ \E k \in TradedKeys, a \in LedgerAmounts : BeginAdd(k[1], k[2], a)
    \/ \E k \in TradedKeys, a \in LedgerAmounts : BeginRemove(k[1], k[2], a)
    \/ \E m \in Markets : BeginClear(m)
    \/ WriteStep
    \/ Crash
    \/ Restart

SpecCrash == InitLedger /\ [][NextCrash]_vars

\* Everything that touches the ledger or the execution gateway: one
\* invocation of the order builder (a copied trade or a direct placement)
\* beside the redemption timer.
InitFrame ==
    InitWith({Config(One, NoNumber, TRUE, TRUE, TRUE)},
             {[m \in {} |-> << >>],
              [m \in {"mA"} |-> [t \in {"t1"} |-> Rat(5, 1)]],
              [m \in {"mA"} |-> [t \in {"t1", "t2"} |-> Rat(2, 1)]]},
             1, MaxRedeemTicks)

NextFrame == NextBuilder \/ RedeemNext(BuilderEnv)

SpecFrame == InitFrame /\ [][NextFrame]_vars

\* The copy pipeline and the redemption timer over a ledger of two markets:
\* one event of the traded key, bought or sold, in every interleaving with
\* the sweeps.
InitInterleave ==
    InitWith({Config(One, NoNumber, TRUE, TRUE, TRUE)},
             {[m \in {"mB"} |-> [t \in {"t1"} |-> One]],
              [m \in {"mA", "mB"} |-> [t \in {"t1"} |-> IF m = "mA" THEN Rat(5, 1) ELSE One]]},
             1, MaxRedeemTicks)

NextInterleave == CopyNext(SmallEnv) \/ RedeemNext(SmallEnv)

SpecInterleave == InitInterleave /\ [][NextInterleave]_vars

\* The redemption coordinator over a ledger of three markets, with one feed
\* message handled beside it.
ThreeMarkets == [m \in {"mA", "mB", "mC"} |-> [t \in {"t1"} |-> One]]

InitRedeem ==
    InitWith({Config(One, NoNumber, TRUE, TRUE, TRUE)}, {ThreeMarkets},
             1, MaxRedeemTicks)

\* The feed carries the target's sales of a token the ledger holds.
RedeemEnv ==
    [SmallEnv EXCEPT
        !.feed = {Trade(Text(TargetWallet), "mC", "t1", SELL, Rat(1, 2), Rat(4, 1))},
        !.sells = {[isNull |-> FALSE, status |-> Text("FILLED"),
                    makingAmount |-> Absent, takingAmount |-> Absent]}]

\* The steps of an invocation copying a SELL (the BUY steps are never
\* enabled under this feed).
SellStep(h) ==
    \/ SellOrderSettled(h)
    \/ DiagDisplaySettled(h)
    \/ DiagRefreshSettled(h)
    \/ OnMessageReturn(h)

NextRedeem ==
    \/ FeedDelivers(RedeemEnv)
    \/ OnMessage
    \/ \E h \in DOMAIN handlers : GatewaySettles(RedeemEnv, h) \/ SellStep(h)
    \/ RedeemNext(RedeemEnv)

SpecRedeem == InitRedeem /\ [][NextRedeem]_vars

\* The whole bot started with any value of REDEEM_DURATION.
InitTimer ==
    InitWith({TimerConfig(d) : d \in RedeemDurations},
             {[m \in {"mA"} |-> [t \in {"t1"} |-> Rat(5, 1)]]},
             1, MaxRedeemTicks)

NextTimer == CopyNext(SmallEnv) \/ RedeemNext(SmallEnv)

SpecTimer == InitTimer /\ [][NextTimer]_vars

\* The whole bot with copy trading on, switched off, or on without an order
\* builder, and the redemption timer running.
InitSwitch ==
    InitWith(CopyConfigs(TRUE) \cup NoCopyConfigs(TRUE),
             {[m \in {"mA"} |-> [t \in {"t1"} |-> Rat(5, 1)]]},
             1, MaxRedeemTicks)

NextSwitch == CopyNext(SmallEnv) \/ RedeemNext(SmallEnv)

SpecSwitch == InitSwitch /\ [][NextSwitch]_vars

\* The redemption coordinator alone (no feed message), over ledgers with one
\* or two tokens in a market and over the empty ledger.
SweepLedgers ==
    {ThreeMarkets,
     [m \in {} |-> << >>],
     [m \in {"mA", "mB"} |->
        IF m = "mA" THEN [t \in {"t1", "t2"} |-> Rat(2, 1)] ELSE [t \in {"t1"} |-> One]]}

InitSweep ==
    InitWith({Config(One, NoNumber, TRUE, TRUE, TRUE)}, SweepLedgers, 0, MaxRedeemTicks)

NextSweep == RedeemNext(SmallEnv)

SpecSweep == InitSweep /\ [][NextSweep]_vars

\* The event loop runs the callback of every message it delivers, and every
\* call the sweep awaits settles (the gateways time out).
Fairness ==
    /\ WF_vars(OnMessage)
    /\ WF_vars(PerformRedemption)
    /\ WF_vars(SellStep(1))
    /\ \A s \in 1..MaxRedeemTicks :
          WF_vars(SweepStep(s)) /\ WF_vars(RedemptionGatewaySettles(RedeemEnv, s))

\* The same over a ledger of one market, under the fairness above.
InitResume ==
    InitWith({Config(One, NoNumber, TRUE, TRUE, TRUE)},
             {[m \in {"mC"} |-> [t \in {"t1"} |-> One]]},
             1, MaxRedeemTicks)

FairSpecResume == InitResume /\ [][NextRedeem]_vars /\ Fairness

\* ------------------------------------------------------------ properties
\* The message in flight is a trade of the tracked wallet that onMessage
\* hands to copyTrade.
CopyInvoked ==
    /\ io.kind = "message"
    /\ io.topic = "activity"
    /\ io.type = "trades"
    /\ WalletMatches(io.payload)
    /\ ShouldCopy

IsSell(payload) == ToUpperCase(payload.side) = SELL

\* The quantity the ledger file holds for the traded key.
HeldFor(file, payload) == getHoldings(file, payload.conditionId, payload.asset)

\* C1: copyTrade on a SELL event whose key has ledger quantity 0 (or no
\* entry) returns the no-holdings failure, has made no call to the execution
\* gateway, and leaves the ledger file as it was.
C1_NoHoldingsSellFails ==
    [][(CopyInvoked /\ IsSell(io.payload) /\ HeldFor(holdingsFile, io.payload) = Zero)
         => LET hr == handlers'[nEvents + 1]
            IN  /\ hr.pc = "returned"
                /\ hr.result = Failure(NoHoldingsError)
                /\ hr.calls = 0
                /\ holdingsFile' = holdingsFile]_vars

C1_Witness ==
    \E h \in DOMAIN handlers :
        /\ handlers[h].pc = "returned"
        /\ handlers[h].result = Failure(NoHoldingsError)
        /\ handlers[h].calls = 0

\* The awaited SELL order of invocation h comes back with a response.
SellReturns(h) ==
    /\ Settled(h, "awaitSellOrder")
    /\ ~io.rejected
    /\ ~io.value.isNull

\* C2: when the SELL order of a copy returns, the ledger quantity of the key
\* goes down by the makingAmount the response reports, and by the amount
\* requested (the full quantity the copy read, which leaves 0 when the
\* ledger still holds that quantity) when the response has no makingAmount;
\* the new quantity is never below 0, and the copy succeeds.
C2_SellReconciliation ==
    [][\A h \in DOMAIN handlers :
         SellReturns(h) =>
            LET hr == handlers[h]
                making == io.value.makingAmount
                before == getHoldings(holdingsFile, hr.market, hr.token)
                after == getHoldings(holdingsFile', hr.market, hr.token)
                omits == ~making.present \/ making.text = << >>
                reports == ~omits /\ ~IsNaN(ParseFloat(making.text))
            IN  /\ reports => after = RMax(Zero, RSub(before, ParseFloat(making.text)))
                /\ omits => /\ after = RMax(Zero, RSub(before, hr.order.amount))
                            /\ before = hr.order.amount => after = Zero
                /\ RGe(after, Zero)
                /\ handlers'[h].pc = "returned"
                /\ handlers'[h].result = Success]_vars

C2_Witness ==
    \E h \in DOMAIN handlers :
        /\ handlers[h].pc = "returned"
        /\ handlers[h].result = Success
        /\ handlers[h].order.side = SELL
        /\ handlers[h].order.amount = Rat(5, 1)
        /\ getHoldings(holdingsFile, handlers[h].market, handlers[h].token) = Rat(5, 2)

\* The awaited balance check of invocation h comes back with a balance.
BalanceReturns(h) ==
    /\ Settled(h, "awaitValidate")
    /\ ~io.rejected

\* C3: a BUY whose available balance is positive but below the intended
\* amount is submitted to the gateway with the amount set to the available
\* balance; once the gateway accepts the order the copy returns success.
C3_BuyClampedToAvailable ==
    [][\A h \in DOMAIN handlers :
         LET hr == handlers[h]
         IN  /\ (BalanceReturns(h) /\ RGt(io.value, Zero) /\ RLt(io.value, hr.order.amount))
                  => /\ handlers'[h].pc = "awaitBuyOrder"
                     /\ handlers'[h].order = [hr.order EXCEPT !.amount = io.value]
                     /\ handlers'[h].calls = hr.calls + 1
             /\ (Settled(h, "awaitBuyOrder") /\ ~io.rejected /\ ~io.value.isNull)
                  => handlers'[h].pc = "awaitApprove"
             /\ Settled(h, "awaitApprove")
                  => /\ handlers'[h].pc = "returned"
                     /\ handlers'[h].result = Success]_vars

C3_Witness ==
    /\ ~cfg.maxAmount.present
    /\ \E h \in DOMAIN handlers :
        /\ handlers[h].pc = "returned"
        /\ handlers[h].result = Success
        /\ handlers[h].order.side = BUY
        /\ handlers[h].order.amount = Rat(1, 2)
        /\ handlers[h].calls = 1

\* C4: a BUY whose available balance is 0 returns the insufficient-balance
\* failure without having called the order endpoint, and the ledger file is
\* as it was.
C4_BuyWithoutBalanceFails ==
    [][\A h \in DOMAIN handlers :
         (BalanceReturns(h) /\ io.value = Zero)
            => /\ handlers'[h].pc = "returned"
               /\ handlers'[h].result = Failure(InsufficientBalanceError)
               /\ handlers'[h].calls = 0
               /\ holdingsFile' = holdingsFile]_vars

C4_Witness ==
    \E h \in DOMAIN handlers :
        /\ handlers[h].pc = "returned"
        /\ handlers[h].result = Failure(InsufficientBalanceError)
        /\ handlers[h].order.side = BUY
        /\ handlers[h].calls = 0

\* C8: the ledger file reads back as the mapping that was written, and
\* writing the mapping that was read leaves the file as it is.
C8_LedgerRoundTrip ==
    LET doc == LoadHoldings(holdingsFile)
    IN  /\ LoadHoldings(SaveHoldings(doc)) = doc
        /\ SaveHoldings(doc) = holdingsFile

C8_Witness ==
    LET doc == LoadHoldings(holdingsFile)
    IN  /\ \E h \in DOMAIN handlers :
             handlers[h].pc = "returned" /\ handlers[h].result = Success
        /\ \E m \in DOMAIN doc : \E t \in DOMAIN doc[m] : doc[m][t] = Zero
        /\ \E m \in DOMAIN doc : Cardinality(DOMAIN doc[m]) = 2

SweepInProgress(s) == sweeps[s].pc \in {"awaitResolution", "awaitRedeem", "returning"}

\* The message in flight is a trade of the tracked wallet.
MatchingArrives ==
    /\ io.kind = "message"
    /\ io.topic = "activity"
    /\ io.type = "trades"
    /\ WalletMatches(io.payload)

\* Where onMessage leaves a message it does not hand to copyTrade.
NotCopiedPcs == {"ignored", "paused", "notCopied"}

\* C5: while a redemption sweep is in progress, no matching trade event
\* that arrives is handed to copyTrade, in every interleaving of timer ticks
\* and events.
C5_NoCopyDuringSweep ==
    [][(MatchingArrives /\ \E s \in DOMAIN sweeps : SweepInProgress(s))
         => handlers'[nEvents + 1].pc \in NotCopiedPcs]_vars

\* C6: every sweep that has set the pause flag ends, whether its body
\* returns or throws, and the flag is clear when it ends; a matching event
\* that arrives when no sweep is in progress is handed to copyTrade.
C6_SweepEndsAndResumes ==
    /\ \A s \in 1..MaxRedeemTicks :
          SweepInProgress(s) ~> (sweeps[s].pc = "done" /\ ~isCopyTradingPaused)
    /\ [][\A s \in DOMAIN sweeps :
            (SweepInProgress(s) /\ sweeps'[s].pc = "done") => ~isCopyTradingPaused']_vars
    /\ [][(MatchingArrives /\ \A s \in DOMAIN sweeps : ~SweepInProgress(s))
            => handlers'[nEvents + 1].pc \notin NotCopiedPcs]_vars

C6_Witness ==
    /\ \E s \in DOMAIN sweeps : sweeps[s].pc \in {"done", "exited"} 
    /\ nTicks = 1
    /\ ~isCopyTradingPaused
    /\ \E h \in DOMAIN handlers : handlers[h].pc = "awaitSellOrder"

\* The sweep in which the first market fails every attempt, the second is
\* redeemed and the third is not resolved.
IsolationScenario == [m \in {"mA", "mB", "mC"} |->
                        CASE m = "mA" -> "failed" [] m = "mB" -> "redeemed"
                          [] OTHER -> "unresolved"]

\* C7: a sweep whose body returns has examined every market it enumerated,
\* also after a market failed on every attempt; when of three held markets
\* the first fails all attempts, the second is redeemed and the third is
\* unresolved, the counts are total 3, resolved 2, redeemed 1, failed 1, the
\* second market is gone from the ledger and the other two remain (with
\* their quantities when nothing else wrote the ledger).
C7_SweepIsolation ==
    \A s \in DOMAIN sweeps :
        (sweeps[s].pc = "done" /\ ~sweeps[s].thrown) =>
            LET sr == sweeps[s]
                doc == LoadHoldings(holdingsFile)
            IN  /\ \A m \in DOMAIN sr.outcome : sr.outcome[m] # "pending"
                /\ sr.outcome = IsolationScenario =>
                     /\ sr.counts = [total |-> 3, resolved |-> 2, redeemed |-> 1, failed |-> 1]
                     /\ "mB" \notin DOMAIN doc
                     /\ nTicks = 1 => {"mA", "mC"} \subseteq DOMAIN doc
                     /\ (nTicks = 1 /\ nEvents = 0) =>
                            doc = [m \in {"mA", "mC"} |-> ThreeMarkets[m]]

C7_Witness ==
    \E s \in DOMAIN sweeps :
        /\ sweeps[s].pc = "done"
        /\ sweeps[s].outcome = IsolationScenario
        /\ nEvents = 0

\* The awaited BUY order of invocation h comes back with a response.
BuyReturns(h) ==
    /\ Settled(h, "awaitBuyOrder")
    /\ ~io.rejected
    /\ ~io.value.isNull

\* An amount field that carries a number.
ReportsFigure(f) == f.present /\ f.text # << >> /\ ~IsNaN(ParseFloat(f.text))

\* C11: when the BUY order of a copy returns with a takingAmount r, the
\* ledger quantity of the key goes up by exactly r, for every reported r,
\* 0 included.
C11_BuyReportedFigure ==
    [][\A h \in DOMAIN handlers :
         (BuyReturns(h) /\ ReportsFigure(io.value.takingAmount)) =>
            LET hr == handlers[h]
                before == getHoldings(holdingsFile, hr.market, hr.token)
                after == getHoldings(holdingsFile', hr.market, hr.token)
            IN  after = RAdd(before, ParseFloat(io.value.takingAmount.text))]_vars

\* An amount field the response does not carry.
OmitsFigure(f) == ~f.present \/ f.text = << >>

\* C12: when the BUY order of a copy returns without a takingAmount, the
\* ledger quantity of the key goes up by the submitted amount (after the
\* balance clamp) divided by the event price when that estimate is above 0,
\* and the ledger file is unchanged when it is not.
C12_BuyEstimate ==
    [][\A h \in DOMAIN handlers :
         (BuyReturns(h) /\ OmitsFigure(io.value.takingAmount)) =>
            LET hr == handlers[h]
                estimate == RDiv(hr.order.amount, hr.price)
                before == getHoldings(holdingsFile, hr.market, hr.token)
                after == getHoldings(holdingsFile', hr.market, hr.token)
            IN  IF RGt(estimate, Zero)
                THEN after = RAdd(before, estimate)
                ELSE holdingsFile' = holdingsFile]_vars

C12_Witness ==
    /\ ~cfg.maxAmount.present
    /\ holdingsFile = SaveHoldings([m \in {"mA"} |-> [t \in {"t1"} |-> One]])
    /\ \E h \in DOMAIN handlers :
        /\ handlers[h].pc = "awaitApprove"
        /\ handlers[h].price = Rat(1, 2)
        /\ handlers[h].order.amount = Rat(1, 2)

\* C13: every quantity in the ledger file is >= 0 in every reachable state,
\* and a SELL whose response reports more tokens sold than the ledger holds
\* leaves the quantity at 0.
C13_QuantitiesNonNegative ==
    /\ [](\A i \in DOMAIN holdingsFile :
            \A j \in DOMAIN holdingsFile[i].tokens :
                RGe(holdingsFile[i].tokens[j].amount, Zero))
    /\ [][\A h \in DOMAIN handlers :
            LET hr == handlers[h]
                making == io.value.makingAmount
                before == getHoldings(holdingsFile, hr.market, hr.token)
            IN  (SellReturns(h) /\ ReportsFigure(making)
                   /\ RGt(ParseFloat(making.text), before))
                  => getHoldings(holdingsFile', hr.market, hr.token) = Zero]_vars

C13_Witness ==
    \E h \in DOMAIN handlers :
        /\ handlers[h].pc = "returned"
        /\ handlers[h].result = Success
        /\ handlers[h].order.side = SELL
        /\ HasEntry(LoadHoldings(holdingsFile), handlers[h].market, handlers[h].token)
        /\ getHoldings(holdingsFile, handlers[h].market, handlers[h].token) = Zero

\* C14: on every reachable ledger file, get of a key without an entry is 0;
\* after add(m, t, a) get(m, t) is the previous value plus a; after
\* remove(m, t, a) it is max(0, previous value minus a); and neither changes
\* the quantity of any other key, other tokens of the same market included.
C14_LedgerContract ==
    \A m \in Markets, t \in Tokens, a \in LedgerAmounts :
        LET previous == getHoldings(holdingsFile, m, t)
            added == addHoldings(holdingsFile, m, t, a)
            removed == removeHoldings(holdingsFile, m, t, a)
        IN  /\ ~HasEntry(LoadHoldings(holdingsFile), m, t) => previous = Zero
            /\ getHoldings(added, m, t) = RAdd(previous, a)
            /\ getHoldings(removed, m, t) = RMax(Zero, RSub(previous, a))
            /\ \A m2 \in Markets, t2 \in Tokens :
                 <<m2, t2>> # <<m, t>> =>
                    /\ getHoldings(added, m2, t2) = getHoldings(holdingsFile, m2, t2)
                    /\ getHoldings(removed, m2, t2) = getHoldings(holdingsFile, m2, t2)

C14_Witness ==
    LET doc == LoadHoldings(holdingsFile)
    IN  /\ DOMAIN doc = {"mA", "mB"}
        /\ DOMAIN doc["mA"] = {"t1", "t2"}
        /\ doc["mA"]["t1"] = Zero
        /\ doc["mA"]["t2"] = Rat(3, 1)
        /\ doc["mB"]["t1"] = Rat(5, 2)

\* C15: the counts of every sweep satisfy redeemed + failed <= resolved <=
\* total, whatever the ledger holds (several tokens of one market included)
\* and however the resolution and redemption calls turn out.
C15_CountsOrdered ==
    \A s \in DOMAIN sweeps :
        LET c == sweeps[s].counts
        IN  c.redeemed + c.failed <= c.resolved /\ c.resolved <= c.total

C15_Witness ==
    \E s \in DOMAIN sweeps :
        /\ sweeps[s].pc = "done"
        /\ ~sweeps[s].thrown
        /\ DOMAIN sweeps[s].held = {"mA", "mB"}
        /\ sweeps[s].held["mA"] = {"t1", "t2"}
        /\ sweeps[s].counts = [total |-> 2, resolved |-> 2, redeemed |-> 1, failed |-> 1]

\* Sweep s receives the outcome of a redemption call for its current market.
RedeemReturns(s) == SweepSettled(s, "awaitRedeem")

\* C16: within one sweep the redemption gateway is called at most 3 times
\* for a market: after a success the sweep leaves the market, a failure
\* before the third call is followed by another call, and the market is
\* marked failed only when the third call has failed.
C16_AtMostThreeAttempts ==
    /\ [](\A s \in DOMAIN sweeps : sweeps[s].attempts <= 3)
    /\ [][\A s \in DOMAIN sweeps :
            RedeemReturns(s) =>
               LET sr == sweeps[s]
                   m == Cur(sr)
                   next == sweeps'[s]
               IN  /\ ~io.rejected =>
                        /\ next.outcome[m] = "redeemed"
                        /\ next.todo = Tail(sr.todo)
                   /\ (io.rejected /\ sr.attempts < 3) =>
                        /\ next.pc = "awaitRedeem"
                        /\ Cur(next) = m
                        /\ next.attempts = sr.attempts + 1
                        /\ next.outcome[m] = "pending"
                   /\ (io.rejected /\ sr.attempts = 3) =>
                        /\ next.outcome[m] = "failed"
                        /\ next.todo = Tail(sr.todo)
                   /\ next.outcome[m] = "failed" => (io.rejected /\ sr.attempts = 3)]_vars

C16_Witness ==
    \E s \in DOMAIN sweeps :
        /\ sweeps[s].pc = "awaitRedeem"
        /\ sweeps[s].attempts = 3
        /\ \E m \in DOMAIN sweeps[s].outcome : sweeps[s].outcome[m] = "failed"

\* The step is one of a sweep: a tick is consumed, an awaited call of a sweep
\* settles, or a sweep moves on.
SweepActs == io.kind \in {"tick", "sweepSettle"} \/ sweeps' # sweeps

\* C17: a sweep removes the entries of a market exactly when a redemption of
\* that market succeeded in it; every other step of a sweep (market not
\* resolved, held token lost, redemption failed, also on the last attempt)
\* leaves the ledger file as it is.
C17_RemovesOnlyRedeemed ==
    /\ [][SweepActs =>
            IF io.kind = "sweepSettle" /\ RedeemReturns(io.s) /\ ~io.rejected
            THEN LET doc == LoadHoldings(holdingsFile)
                     m == Cur(sweeps[io.s])
                 IN  LoadHoldings(holdingsFile') = [mm \in DOMAIN doc \ {m} |-> doc[mm]]
            ELSE holdingsFile' = holdingsFile]_vars
    /\ [](\A s \in DOMAIN sweeps :
            (sweeps[s].pc = "done" /\ nTicks = 1 /\ nEvents = 0) =>
                \A m \in DOMAIN sweeps[s].outcome :
                    m \in DOMAIN LoadHoldings(holdingsFile)
                        <=> sweeps[s].outcome[m] # "redeemed")

C17_Witness ==
    \E s \in DOMAIN sweeps :
        /\ sweeps[s].pc = "done"
        /\ nTicks = 1
        /\ DOMAIN sweeps[s].outcome = {"mA", "mB"}
        /\ sweeps[s].outcome["mA"] = "redeemed"
        /\ sweeps[s].outcome["mB"] = "failed"
        /\ LoadHoldings(holdingsFile) = [m \in {"mB"} |-> [t \in {"t1"} |-> One]]

\* The wallet field is present and equals the tracked wallet up to letter case.
SameWallet(w) == w.present /\ ToUpperCase(w.text) = ToUpperCase(TargetWallet)

\* The message in flight is a trade message.
TradeArrives == io.kind = "message" /\ io.topic = "activity" /\ io.type = "trades"

\* C18: a trade event whose wallet is missing or differs from the tracked
\* wallet by more than letter case is ignored: copyTrade is not invoked, no
\* order is built, no gateway call is made, the ledger file is unchanged, and
\* its invocation does nothing later; an event whose wallet differs only in
\* letter case is handed to copyTrade like an exact match.
C18_WalletFilter ==
    /\ [][TradeArrives =>
            LET hr == handlers'[nEvents + 1]
            IN  /\ ~SameWallet(io.payload.proxyWallet) =>
                     /\ hr.pc = "ignored"
                     /\ hr.calls = 0
                     /\ hr.order = NoOrder
                     /\ holdingsFile' = holdingsFile
                /\ (SameWallet(io.payload.proxyWallet) /\ ShouldCopy) =>
                     hr.pc \notin NotCopiedPcs]_vars
    /\ [][\A h \in DOMAIN handlers :
            handlers[h].pc = "ignored" => handlers'[h] = handlers[h]]_vars

C18_Witness ==
    /\ cfg.sizeMultiplier = One
    /\ \E h \in DOMAIN handlers :
        /\ handlers[h].pc = "awaitRefresh"
        /\ handlers[h].price = Rat(1, 2)
        /\ handlers[h].order.amount = Rat(1, 2)

\* C19: a matching event that arrives while the pause flag is set is dropped:
\* copyTrade is not invoked, no order is built, no gateway call is made and
\* the ledger file is unchanged, and its invocation never does anything
\* later, also after the flag is cleared.
C19_PausedEventDropped ==
    /\ [][(MatchingArrives /\ isCopyTradingPaused) =>
            LET hr == handlers'[nEvents + 1]
            IN  /\ hr.pc = "paused"
                /\ hr.calls = 0
                /\ hr.order = NoOrder
                /\ holdingsFile' = holdingsFile]_vars
    /\ [][\A h \in DOMAIN handlers :
            handlers[h].pc = "paused" => handlers'[h] = handlers[h]]_vars

C19_Witness ==
    /\ ~isCopyTradingPaused
    /\ \E s \in DOMAIN sweeps : sweeps[s].pc \in {"done", "exited"}
    /\ \E h \in DOMAIN handlers : handlers[h].pc = "paused"

\* Where a copyTrade call is between its start and its return.
InCopyTradePcs ==
    {"awaitSellOrder", "awaitRefresh", "awaitDisplay", "awaitValidate",
     "awaitBuyOrder", "awaitApprove", "diagDisplay", "diagRefresh"}

\* C20: the processing of two trade events never overlaps: at most one
\* copyTrade call is between its start (its ledger read) and its return.
C20_OneCopyAtATime ==
    Cardinality({h \in DOMAIN handlers : handlers[h].pc \in InCopyTradePcs}) <= 1

\* A call awaited by the order builder settles with a failure: it throws, or
\* the order call answers null.
CallFails(h, pcs) ==
    /\ io.kind = "settle"
    /\ io.h = h
    /\ handlers[h].pc \in pcs
    /\ (io.rejected \/ (handlers[h].pc \in {"awaitSellOrder", "awaitBuyOrder",
                                            "awaitPlaceSell", "awaitPlaceBuy"}
                        /\ io.value.isNull))

IsFailure(r) == ~r.success /\ r.error # << >>

IntervalAbsentOrZero(d) == ~d.present \/ ParseFloat(d.text) = Zero

\* C22: when the redemption interval is absent or zero the timer never
\* fires, no sweep starts, the pause flag is never set, and the ledger file
\* changes only in a step of a copyTrade invocation.
C22_NoIntervalNoSweep ==
    /\ [](IntervalAbsentOrZero(cfg.redeemDuration) =>
            /\ io.kind \notin {"tick", "sweepSettle"}
            /\ nTicks = 0
            /\ \A s \in DOMAIN sweeps : sweeps[s] = IdleSweep
            /\ ~isCopyTradingPaused)
    /\ [][(IntervalAbsentOrZero(cfg.redeemDuration) /\ holdingsFile' # holdingsFile)
            => io.kind = "settle"]_vars

C22_Witness ==
    /\ cfg.redeemDuration = Text(<<"0">>)
    /\ nTicks = 0
    /\ \E h \in DOMAIN handlers :
        handlers[h].pc = "returned" /\ handlers[h].result = Success

\* C23: a matching event is handed to copyTrade only when the pause flag is
\* clear and copy trading is enabled; with copy trading disabled no
\* invocation ever enters copyTrade, no call is awaited for an event, and
\* the ledger file changes only in a step of the redemption sweep.
C23_CopyOnlyWhenEnabled ==
    /\ [][(MatchingArrives /\ handlers'[nEvents + 1].pc \notin NotCopiedPcs)
            => ~isCopyTradingPaused /\ cfg.enableCopyTrading]_vars
    /\ [](~cfg.enableCopyTrading =>
            /\ io.kind # "settle"
            /\ \A h \in DOMAIN handlers :
                 /\ handlers[h].pc \in {"idle"} \cup NotCopiedPcs
                 /\ handlers[h].calls = 0
                 /\ handlers[h].order = NoOrder)
    /\ [][(~cfg.enableCopyTrading /\ holdingsFile' # holdingsFile)
            => io.kind = "sweepSettle"]_vars

C23_Witness ==
    /\ ~cfg.enableCopyTrading
    /\ ~isCopyTradingPaused
    /\ \E h \in DOMAIN handlers : handlers[h].pc = "notCopied"

\* The file reads as a ledger: parsing it and writing it back gives the same
\* file, and no quantity is negative.
ValidLedgerFile(file) ==
    /\ SaveHoldings(LoadHoldings(file)) = file
    /\ \A i \in DOMAIN file : \A j \in DOMAIN file[i].tokens :
          RGe(file[i].tokens[j].amount, Zero)

ComputedAmount(payload) == RMul(RMul(payload.price, payload.size), cfg.sizeMultiplier)

\* C25: a copied BUY whose computed amount exceeds the configured maximum
\* order amount is rejected: its invocation ends with a failure at once,
\* with no order built and none submitted.
C25_OversizedBuyRejected ==
    [][(CopyInvoked /\ ~IsSell(io.payload) /\ cfg.maxAmount.present
          /\ RGt(ComputedAmount(io.payload), cfg.maxAmount.value))
         => LET hr == handlers'[nEvents + 1]
            IN  /\ hr.pc = "returned"
                /\ ~hr.result.success
                /\ hr.order = NoOrder
                /\ hr.calls = 0]_vars

DiagPcs == {"diagDisplay", "diagRefresh"}

OrderAnswered(h) ==
    /\ io.kind = "settle"
    /\ io.h = h
    /\ handlers[h].pc \in {"awaitSellOrder", "awaitBuyOrder"}
    /\ ~io.rejected
    /\ ~io.value.isNull

\* C27: within a copyTrade call the ledger file is written only in the step
\* that receives the gateway's response, and that step leads to success; so
\* a call that fails for no holdings, for no balance, or because a call threw
\* has not changed the ledger file.
C27_LedgerWrittenAfterResponse ==
    [][\A h \in DOMAIN handlers :
         /\ (handlers'[h] # handlers[h] /\ holdingsFile' # holdingsFile)
              => OrderAnswered(h)
         /\ OrderAnswered(h)
              => \/ handlers'[h].pc = "returned" /\ handlers'[h].result = Success
                 \/ handlers'[h].pc = "awaitApprove"
         /\ handlers[h].pc = "awaitApprove"
              => handlers'[h].pc = "awaitApprove"
                 \/ (handlers'[h].pc = "returned" /\ handlers'[h].result = Success)
         /\ (handlers'[h].pc = "returned" /\ handlers[h].pc # "returned"
               /\ ~handlers'[h].result.success)
              => holdingsFile' = holdingsFile /\ ~OrderAnswered(h)]_vars

C27_Witness ==
    /\ getHoldings(holdingsFile, "mA", "t1") = Rat(5, 1)
    /\ \E h \in DOMAIN handlers :
        /\ handlers[h].pc = "returned"
        /\ handlers[h].result = Failure(OrderRejectedError)
        /\ handlers[h].order.side = SELL
        /\ handlers[h].market = "mA"
        /\ handlers[h].calls = 1

\* The response reports neither FILLED nor PARTIALLY_FILLED.
NotAFill(response) ==
    ~(response.status.present /\ response.status.text \in {"FILLED", "PARTIALLY_FILLED"})

\* C28: a response whose status is neither filled nor partially filled does
\* not fail the copy: the ledger is reconciled from the response (the figure
\* it reports when that is above 0, the fallback amount otherwise) and the
\* call goes on to return success.
C28_UnfilledStatusIsNoFailure ==
    [][\A h \in DOMAIN handlers :
         (OrderAnswered(h) /\ NotAFill(io.value)) =>
            LET hr == handlers[h]
                before == getHoldings(holdingsFile, hr.market, hr.token)
                after == getHoldings(holdingsFile', hr.market, hr.token)
                making == io.value.makingAmount
                taking == io.value.takingAmount
                estimate == RDiv(hr.order.amount, PriceOr1(hr.price))
            IN  IF hr.pc = "awaitSellOrder"
                THEN /\ handlers'[h].pc = "returned"
                     /\ handlers'[h].result = Success
                     /\ (ReportsFigure(making) /\ RGt(ParseFloat(making.text), Zero))
                          => after = RMax(Zero, RSub(before, ParseFloat(making.text)))
                     /\ OmitsFigure(making)
                          => after = RMax(Zero, RSub(before, hr.order.amount))
                ELSE /\ handlers'[h].pc = "awaitApprove"
                     /\ (ReportsFigure(taking) /\ RGt(ParseFloat(taking.text), Zero))
                          => after = RAdd(before, ParseFloat(taking.text))
                     /\ (OmitsFigure(taking) /\ RGt(estimate, Zero))
                          => after = RAdd(before, estimate)]_vars

C28_Witness ==
    /\ getHoldings(holdingsFile, "mA", "t1") = Rat(12, 1)
    /\ \E h \in DOMAIN handlers :
        /\ handlers[h].pc = "returned"
        /\ handlers[h].result = Success
        /\ handlers[h].order.side = BUY

\* C29: when the approval awaited after a BUY fails, copyTrade returns
\* success, the ledger file stays as the buy left it, and the approval is
\* not awaited again.
C29_ApprovalFailureIgnored ==
    [][\A h \in DOMAIN handlers :
         (Settled(h, "awaitApprove") /\ io.rejected) =>
            /\ handlers'[h].pc = "returned"
            /\ handlers'[h].result = Success
            /\ handlers'[h].calls = handlers[h].calls
            /\ holdingsFile' = holdingsFile]_vars

C29_Witness ==
    /\ getHoldings(holdingsFile, "mA", "t1") = Rat(12, 1)
    /\ io.kind = "none"
    /\ \E h \in DOMAIN handlers :
        /\ handlers[h].pc = "returned"
        /\ handlers[h].result = Success
        /\ handlers[h].order.side = BUY
        /\ handlers[h].calls = 1

\* C30: when the refresh awaited before the balance check of a BUY fails,
\* the copy goes on to display and validate the balance with the order it
\* had built, exactly as after a refresh that succeeds; no result is
\* produced and the ledger file is unchanged by that step.
C30_RefreshFailureIgnored ==
    [][\A h \in DOMAIN handlers :
         Settled(h, "awaitRefresh") =>
            /\ handlers'[h] = [handlers[h] EXCEPT !.pc = "awaitDisplay"]
            /\ handlers'[h].result = NoResult
            /\ holdingsFile' = holdingsFile]_vars

C30_Witness ==
    /\ getHoldings(holdingsFile, "mA", "t1") = Rat(7, 1)
    /\ io.kind = "none"
    /\ \E h \in DOMAIN handlers :
        /\ handlers[h].pc = "returned"
        /\ handlers[h].result = Success
        /\ handlers[h].order.side = BUY
        /\ handlers[h].calls = 1

\* The pcs at which copyTrade awaits a call outside the diagnostic pass whose
\* exception reaches the catch block.
CaughtPcs == {"awaitSellOrder", "awaitBuyOrder", "awaitDisplay", "awaitValidate"}

\* C31: an exception inside copyTrade whose message names a balance or
\* allowance problem starts the diagnostic pass (balance display, then
\* allowance refresh), once; any other exception is returned at once.  The
\* pass changes neither the ledger file nor the error kept for the result,
\* and whether its calls succeed or fail the call returns the failure with
\* the original message.
C31_DiagnosticPassKeepsError ==
    [][\A h \in DOMAIN handlers :
         /\ (CallFails(h, CaughtPcs) /\ io.rejected /\ io.error = NotEnoughBalanceError)
              => /\ handlers'[h].pc = "diagDisplay"
                 /\ handlers'[h].err = NotEnoughBalanceError
                 /\ holdingsFile' = holdingsFile
         /\ (CallFails(h, CaughtPcs) /\ io.rejected /\ io.error = OrderRejectedError)
              => /\ handlers'[h].pc = "returned"
                 /\ handlers'[h].result = Failure(OrderRejectedError)
         /\ (Settled(h, "diagDisplay") /\ ~io.rejected)
              => /\ handlers'[h] = [handlers[h] EXCEPT !.pc = "diagRefresh"]
                 /\ holdingsFile' = holdingsFile
         /\ ((Settled(h, "diagDisplay") /\ io.rejected) \/ Settled(h, "diagRefresh"))
              => /\ handlers'[h] = [handlers[h] EXCEPT
                                        !.pc = "returned",
                                        !.result = Failure(handlers[h].err)]
                 /\ handlers[h].err = NotEnoughBalanceError
                 /\ holdingsFile' = holdingsFile]_vars

C31_Witness ==
    \E h \in DOMAIN handlers :
        /\ handlers[h].pc = "returned"
        /\ handlers[h].err = NotEnoughBalanceError
        /\ handlers[h].result = Failure(NotEnoughBalanceError)
        /\ handlers[h].order.side = SELL

\* The sweep has enumerated the ledger and has not yet returned from
\* autoRedeemResolvedMarkets: it awaits a resolution query or a redemption.
SweepWorking(s) == sweeps[s].pc \in {"awaitResolution", "awaitRedeem"}

\* C32: the pause flag is set from before a sweep's first read of the ledger
\* until after its last ledger write and gateway call: the flag is set in
\* every state in which a sweep is working, and in every step in which a
\* sweep writes the ledger file.
C32_FlagSetWhileSweeping ==
    /\ [](\A s \in DOMAIN sweeps : SweepWorking(s) => isCopyTradingPaused)
    /\ [][(io.kind = "sweepSettle" /\ holdingsFile' # holdingsFile)
            => isCopyTradingPaused]_vars

\* C36: at most one redemption sweep is in progress at any time.
C36_OneSweepAtATime ==
    Cardinality({s \in DOMAIN sweeps : SweepInProgress(s)}) <= 1

\* C33: the pause flag is cooperative.  Starting a sweep changes no
\* invocation of onMessage; a copyTrade call that is awaiting its order when
\* the flag is set is neither cancelled nor held back: when the gateway
\* answers it reconciles the ledger and returns success, although a sweep is
\* working.
C33_FlagIsCooperative ==
    [][/\ io.kind = "tick" => handlers' = handlers
       /\ \A h \in DOMAIN handlers :
            (handlers[h].pc = "awaitSellOrder" /\ isCopyTradingPaused) =>
               /\ handlers'[h].pc \in {"awaitSellOrder", "diagDisplay", "returned"}
               /\ SellReturns(h) =>
                    LET hr == handlers[h]
                        before == getHoldings(holdingsFile, hr.market, hr.token)
                        after == getHoldings(holdingsFile', hr.market, hr.token)
                    IN  /\ handlers'[h].pc = "returned"
                        /\ handlers'[h].result = Success
                        /\ OmitsFigure(io.value.makingAmount)
                             => after = RMax(Zero, RSub(before, hr.order.amount))]_vars

C33_Witness ==
    /\ isCopyTradingPaused
    /\ \E s \in DOMAIN sweeps :
         /\ sweeps[s].pc = "awaitRedeem"
         /\ "mC" \in DOMAIN sweeps[s].held
         /\ Cur(sweeps[s]) # "mC"
    /\ getHoldings(holdingsFile, "mC", "t1") = One
    /\ \E h \in DOMAIN handlers :
         /\ handlers[h].pc = "awaitSellOrder"
         /\ handlers[h].market = "mC"
         /\ SellReturns(h)

\* C34: a sweep calls the redemption gateway for a market only when the
\* resolution gateway answered that the market is resolved and the winning
\* token is one the sweep found held for it; an unresolved market and a resolved
\* market whose held tokens lost are passed over without a redemption call.
C34_RedeemsOnlyWinners ==
    [][\A s \in DOMAIN sweeps :
         LET m == Cur(sweeps[s])
             wins == /\ SweepSettled(s, "awaitResolution")
                     /\ ~io.rejected
                     /\ io.value.resolved
                     /\ io.value.winner \in sweeps[s].held[m]
         IN  /\ (sweeps[s].pc # "awaitRedeem" /\ sweeps'[s].pc = "awaitRedeem") => wins
             /\ (SweepSettled(s, "awaitResolution") /\ ~io.rejected /\ ~wins)
                  => /\ sweeps'[s].pc \in {"awaitResolution", "returning"}
                     /\ sweeps'[s].outcome[m] =
                           IF io.value.resolved THEN "lost" ELSE "unresolved"
                     /\ sweeps'[s].counts.redeemed = sweeps[s].counts.redeemed
                     /\ sweeps'[s].counts.failed = sweeps[s].counts.failed
                     /\ holdingsFile' = holdingsFile]_vars

C34_Witness ==
    \E s \in DOMAIN sweeps :
        /\ sweeps[s].pc = "returning"
        /\ \E m \in DOMAIN sweeps[s].outcome : sweeps[s].outcome[m] = "lost"
        /\ \E m \in DOMAIN sweeps[s].outcome : sweeps[s].outcome[m] = "unresolved"
        /\ sweeps[s].counts.redeemed = 0
        /\ sweeps[s].counts.failed = 0

\* The ledger file has an entry for the key.
FileHas(file, m, t) == HasEntry(LoadHoldings(file), m, t)

\* The step creates the entry of the key or raises its quantity.
Grows(m, t) ==
    \/ ~FileHas(holdingsFile, m, t) /\ FileHas(holdingsFile', m, t)
    \/ RGt(getHoldings(holdingsFile', m, t), getHoldings(holdingsFile, m, t))

\* C35: an entry of the ledger is created or its quantity raised only in the
\* step in which the order call of a copied BUY for that key returns; the
\* step in which a copied SELL's order returns and the steps of the sweep
\* create and raise nothing; the steps of placeMarketBuy and placeMarketSell
\* leave the ledger file as it is whatever the gateway answers.
C35_LedgerFrame ==
    [][/\ \A m \in Markets, t \in Tokens :
            Grows(m, t) => \E h \in DOMAIN handlers :
                              /\ BuyReturns(h)
                              /\ handlers[h].market = m
                              /\ handlers[h].token = t
       /\ \A h \in DOMAIN handlers :
            /\ (handlers'[h] # handlers[h]
                  /\ ({handlers[h].pc, handlers'[h].pc}
                        \cap {"awaitPlaceBuy", "awaitPlaceSell"} # {}))
                 => holdingsFile' = holdingsFile
            /\ (handlers'[h] # handlers[h] /\ holdingsFile' # holdingsFile)
                 => handlers[h].pc \in {"awaitSellOrder", "awaitBuyOrder"}
       /\ (holdingsFile' # holdingsFile /\ handlers' = handlers)
            => io.kind = "sweepSettle"]_vars

C35_Witness ==
    /\ holdingsFile = SaveHoldings([m \in {"mA"} |-> [t \in {"t1"} |-> Rat(5, 1)]])
    /\ \E h \in DOMAIN handlers :
        /\ handlers[h].pc = "returned"
        /\ handlers[h].result = Success
        /\ handlers[h].market = ""
        /\ handlers[h].order.side = BUY
        /\ handlers[h].order.tokenID = "t1"

\* The SELL copies of the key whose order is with the gateway and asks for
\* the quantity the ledger still shows: they all read that same quantity.
SellsInFlight(m, t) ==
    {h \in DOMAIN handlers :
        /\ handlers[h].pc = "awaitSellOrder"
        /\ handlers[h].market = m
        /\ handlers[h].token = t
        /\ handlers[h].order.amount = getHoldings(holdingsFile, m, t)}

\* C37: for every (market, token), the SELL copies that read the same ledger
\* quantity q have submitted at most q in total, which for a positive q
\* means at most one such order is with the gateway at a time.
C37_SellsWithinHolding ==
    \A m \in Markets, t \in Tokens :
        RLe(RMul(Rat(Cardinality(SellsInFlight(m, t)), 1),
                 getHoldings(holdingsFile, m, t)),
            getHoldings(holdingsFile, m, t))

\* The step leaves the entry of the key as it was.
KeepsEntry(m, t) ==
    /\ FileHas(holdingsFile', m, t) = FileHas(holdingsFile, m, t)
    /\ getHoldings(holdingsFile', m, t) = getHoldings(holdingsFile, m, t)

\* C38: every ledger write is made on the document as it is at the write. A
\* write of the sweep removes the entries of the redeemed market and keeps
\* every other entry as the file held it just before, the writes of a copy
\* included; a write of a copy raises (BUY) or lowers (SELL) the quantity of
\* its own key and keeps every other entry, the removals of the sweep
\* included.
C38_NoLostUpdate ==
    [][/\ (io.kind = "sweepSettle" /\ holdingsFile' # holdingsFile)
            => \A m \in Markets, t \in Tokens :
                  IF m = Cur(sweeps[io.s])
                  THEN ~FileHas(holdingsFile', m, t)
                  ELSE KeepsEntry(m, t)
       /\ \A h \in DOMAIN handlers :
            (handlers'[h] # handlers[h] /\ holdingsFile' # holdingsFile)
              => /\ \A m \in Markets, t \in Tokens :
                      (m # handlers[h].market \/ t # handlers[h].token)
                         => KeepsEntry(m, t)
                 /\ LET before == getHoldings(holdingsFile, handlers[h].market,
                                              handlers[h].token)
                        after == getHoldings(holdingsFile', handlers[h].market,
                                             handlers[h].token)
                    IN  IF handlers[h].pc = "awaitBuyOrder"
                        THEN RGt(after, before)
                        ELSE RLt(after, before)]_vars

\* A BUY of a market the sweep did not enumerate is on the ledger and the
\* market the sweep redeemed is off it, the sweep not yet over.
C38_Witness ==
    /\ FileHas(holdingsFile, "mA", "t1")
    /\ ~FileHas(holdingsFile, "mB", "t1")
    /\ \E s \in DOMAIN sweeps :
        /\ SweepInProgress(s)
        /\ DOMAIN sweeps[s].held = {"mB"}
        /\ sweeps[s].outcome["mB"] = "redeemed"

\* C39: a SELL copy that returns success has lowered the ledger quantity of
\* its key; in particular a sell of which the gateway reports zero tokens
\* sold does not return success.
C39_SuccessfulSellDecrements ==
    [][\A h \in DOMAIN handlers :
          (Settled(h, "awaitSellOrder") /\ handlers'[h].result = Success)
            => RLt(getHoldings(holdingsFile', handlers[h].market, handlers[h].token),
                   getHoldings(holdingsFile, handlers[h].market, handlers[h].token))]_vars
====
